---- MODULE Spec2Model ----
(***************************************************************************)
(* Model of the tarotfree reading engine (src/src/utils/storage.ts,        *)
(* class ReadingAnalyzer) together with the card picker that produces its  *)
(* input (src/unnamed/part_003, CardDeck).                                 *)
(*                                                                         *)
(* Strings are sequences of one-character strings, so that toLowerCase,    *)
(* split, includes and the regular expression of matchesCardName are       *)
(* computed as the code computes them.                                     *)
(* A strength is kept in tenths: 0.9 is 9, 0.3 is 3.                       *)
(***************************************************************************)
EXTENDS Integers, Sequences, FiniteSets, TLC

\* the reading and its analysis
VARIABLES language, spread, cards, question, analysis, calls

\* the card picker (CardDeck): its props, its state, its pending timeouts and
\* the calls it made of onCardsSelected
VARIABLES deckVersion, cardCount, deck, selectedCards, isShuffling,
          isRevealing, deckTimers, onCardsSelected

\* the reading limit: the clock (Date.now(), in ticks), whether localStorage
\* exists, the item 'readingLimit' of localStorage, the times at which
\* recordReading stored a reading, and what the last call of canDoReading
\* returned
VARIABLES now, localStorageDefined, readingLimit, recorded, limitResult

\* FullReadingDisplay: whether it is mounted, the props of its latest render,
\* its state (analysis, isLoading), its pending timeouts, the number of
\* timeouts it has set, and the timeout whose callback stored the analysis
VARIABLES displayMounted, displayProps, displayAnalysis, displayLoading,
          displayTimers, timersSet, analyzedBy

\* text to speech: who calls the manager, the languages the browser has a
\* voice for, the fields of TextToSpeechManager, the intervals that are
\* scheduled, the utterance the speech synthesis holds and the events it still
\* owes to cancelled utterances, the calls of speak with the callbacks they
\* made, and the state of MysteryVoiceButton
VARIABLES ttsCaller, voices, currentUtterance, keepAliveInterval,
          intervals, synthUtterance, synthStarted, lateEvents, speakCalls,
          isPlaying, isPaused, error, pollIntervals, stopClicked

\* the i18n manager and one useI18n hook: the manager's current language, the
\* languages its cache holds the hook's namespace for, the dynamic imports in
\* flight, the number of imports started, and the hook's state
VARIABLES currentLanguage, translations, imports, importsStarted,
          hookIsLoaded, hookCurrentLang

readingVars == <<language, spread, cards, question, analysis, calls>>

deckVars == <<deckVersion, cardCount, deck, selectedCards, isShuffling,
              isRevealing, deckTimers, onCardsSelected>>

limitVars == <<now, localStorageDefined, readingLimit, recorded,
               limitResult>>

displayVars == <<displayMounted, displayProps, displayAnalysis,
                 displayLoading, displayTimers, timersSet, analyzedBy>>

voiceVars == <<ttsCaller, voices, currentUtterance, keepAliveInterval,
               intervals, synthUtterance, synthStarted, lateEvents,
               speakCalls, isPlaying, isPaused, error, pollIntervals,
               stopClicked>>

i18nVars == <<currentLanguage, translations, imports, importsStarted,
              hookIsLoaded, hookCurrentLang>>

vars == <<readingVars, deckVars, limitVars, displayVars, voiceVars,
          i18nVars>>

\* the variables outside each part of the program
outsideReading == <<deckVars, limitVars, displayVars, voiceVars, i18nVars>>

outsideDeck == <<readingVars, limitVars, displayVars, voiceVars, i18nVars>>

outsideLimit == <<readingVars, deckVars, displayVars, voiceVars, i18nVars>>

outsideDisplay == <<readingVars, deckVars, limitVars, voiceVars, i18nVars>>

outsideVoice == <<readingVars, deckVars, limitVars, displayVars, i18nVars>>

outsideI18n == <<readingVars, deckVars, limitVars, displayVars, voiceVars>>

\* a part of the program that takes no step in a specification stays as it is
\* before its page is opened
NoReading ==
    /\ language = "en"
    /\ spread = [none |-> TRUE]
    /\ cards = <<>>
    /\ question = <<>>
    /\ analysis = [none |-> TRUE]
    /\ calls = <<>>

NoDeck ==
    /\ deckVersion = "none"
    /\ cardCount = 0
    /\ deck = <<>>
    /\ selectedCards = <<>>
    /\ isShuffling = FALSE
    /\ isRevealing = FALSE
    /\ deckTimers = {}
    /\ onCardsSelected = <<>>

NoLimit ==
    /\ now = 0
    /\ localStorageDefined = FALSE
    /\ readingLimit = [stored |-> FALSE, readings |-> <<>>]
    /\ recorded = <<>>
    /\ limitResult = [called |-> FALSE]

NoDisplay ==
    /\ displayMounted = FALSE
    /\ displayProps = [none |-> TRUE]
    /\ displayAnalysis = [none |-> TRUE]
    /\ displayLoading = TRUE
    /\ displayTimers = {}
    /\ timersSet = 0
    /\ analyzedBy = [none |-> TRUE]

NoVoice ==
    /\ ttsCaller = "none"
    /\ voices = {}
    /\ currentUtterance = 0
    /\ keepAliveInterval = 0
    /\ intervals = {}
    /\ synthUtterance = 0
    /\ synthStarted = FALSE
    /\ lateEvents = {}
    /\ speakCalls = <<>>
    /\ isPlaying = FALSE
    /\ isPaused = FALSE
    /\ error = "null"
    /\ pollIntervals = {}
    /\ stopClicked = FALSE

NoI18n ==
    /\ currentLanguage = "en"
    /\ translations = {}
    /\ imports = {}
    /\ importsStarted = 0
    /\ hookIsLoaded = FALSE
    /\ hookCurrentLang = "en"

IdleOutsideReading ==
    /\ NoDeck
    /\ NoLimit
    /\ NoDisplay
    /\ NoVoice
    /\ NoI18n

IdleOutsideDeck ==
    /\ NoReading
    /\ NoLimit
    /\ NoDisplay
    /\ NoVoice
    /\ NoI18n

IdleOutsideLimit ==
    /\ NoReading
    /\ NoDeck
    /\ NoDisplay
    /\ NoVoice
    /\ NoI18n

IdleOutsideDisplay ==
    /\ NoReading
    /\ NoDeck
    /\ NoLimit
    /\ NoVoice
    /\ NoI18n

IdleOutsideVoice ==
    /\ NoReading
    /\ NoDeck
    /\ NoLimit
    /\ NoDisplay
    /\ NoI18n

IdleOutsideI18n ==
    /\ NoReading
    /\ NoDeck
    /\ NoLimit
    /\ NoDisplay
    /\ NoVoice

\* Largest spread (number of positions) the model draws for.
MaxSpreadCards == 3

(***************************************************************************)
(* String primitives of JavaScript used by the analyzer.                   *)
(***************************************************************************)
UpperChars == <<"A","B","C","D","E","F","G","H","I","J","K","L","M",
                "N","O","P","Q","R","S","T","U","V","W","X","Y","Z">>

LowerChars == <<"a","b","c","d","e","f","g","h","i","j","k","l","m",
                "n","o","p","q","r","s","t","u","v","w","x","y","z">>

\* the lower-case letter of each upper-case letter
LowerOf == [c \in {UpperChars[k] : k \in 1..Len(UpperChars)} |->
               LowerChars[CHOOSE k \in 1..Len(UpperChars) : UpperChars[k] = c]]

\* String.prototype.toLowerCase, one character
toLowerChar(c) == IF c \in DOMAIN LowerOf THEN LowerOf[c] ELSE c

\* String.prototype.toLowerCase
toLowerCase(s) == [k \in 1..Len(s) |-> toLowerChar(s[k])]

\* String.prototype.includes
includes(s, sub) ==
    \E k \in 0..(Len(s) - Len(sub)) : SubSeq(s, k + 1, k + Len(sub)) = sub

\* Array.prototype.includes / Set.prototype.has on a sequence
InSeq(x, seq) == \E k \in 1..Len(seq) : seq[k] = x

\* Array.prototype.join(' ')
RECURSIVE join(_)
join(parts) ==
    IF Len(parts) = 0 THEN <<>>
    ELSE IF Len(parts) = 1 THEN parts[1]
    ELSE parts[1] \o <<" ">> \o join(Tail(parts))

\* String.prototype.split(' '): the pieces between single spaces, empty
\* pieces included ("" splits into one empty piece).
RECURSIVE split(_)
split(s) ==
    IF \E k \in 1..Len(s) : s[k] = " "
    THEN LET p == CHOOSE k \in 1..Len(s) :
                     s[k] = " " /\ \A m \in 1..(k - 1) : s[m] # " "
         IN  <<SubSeq(s, 1, p - 1)>> \o split(SubSeq(s, p + 1, Len(s)))
    ELSE <<s>>

(***************************************************************************)
(* Reference data: a deck and spreads in the shape of TarotCard and        *)
(* TarotSpread.  The English deck carries canonical names; the Vietnamese  *)
(* deck carries "localized (canonical)" names, and both keep canonical     *)
(* names in the relationship lists.                                        *)
(***************************************************************************)
NoSuit == "null"

CardName ==
    [Sun |-> <<"S","u","n">>,
     Lovers |-> <<"L","o","v","e","r","s">>,
     Emperor |-> <<"E","m","p","e","r","o","r">>,
     AceCups |-> <<"A","c","e"," ","C","u","p","s">>,
     TwoCups |-> <<"T","w","o"," ","C","u","p","s">>,
     TenCups |-> <<"T","e","n"," ","C","u","p","s">>,
     PageSwords |-> <<"P","a","g","e"," ","S","w","o","r","d","s">>]

\* cards.json of the English deck, indexed by id + 1
DeckEn == <<
    [id |-> 0, name |-> CardName.Sun, arcana |-> "major", suit |-> NoSuit,
     keywords |-> <<<<"J","o","y">>, <<"S","u","c","c","e","s","s">>>>,
     upright |-> [short |-> <<"J","o","y"," ","a","n","d"," ","s","u","c","c","e","s","s">>],
     reversed |-> [short |-> <<"L","o","s","s"," ","o","f"," ","j","o","y">>],
     relationships |-> [supporting_cards |-> <<CardName.Emperor>>,
                        challenging_cards |-> <<CardName.Lovers>>]],
    [id |-> 1, name |-> CardName.Lovers, arcana |-> "major", suit |-> NoSuit,
     keywords |-> <<<<"L","o","v","e">>, <<"C","h","o","i","c","e">>>>,
     upright |-> [short |-> <<"L","o","v","e"," ","a","n","d"," ","h","a","r","m","o","n","y">>],
     reversed |-> [short |-> <<"L","o","s","s"," ","o","f"," ","l","o","v","e">>],
     relationships |-> [supporting_cards |-> <<CardName.Sun>>,
                        challenging_cards |-> <<>>]],
    [id |-> 2, name |-> CardName.Emperor, arcana |-> "major", suit |-> NoSuit,
     keywords |-> <<<<"P","o","w","e","r">>, <<"J","o","y">>, <<"S","u","c","c","e","s","s">>>>,
     upright |-> [short |-> <<"S","u","c","c","e","s","s",","," ","p","e","a","c","e",","," ","h","a","r","m","o","n","y",","," ","h","o","p","e">>],
     reversed |-> [short |-> <<"C","o","n","f","l","i","c","t">>],
     relationships |-> [supporting_cards |-> <<>>,
                        challenging_cards |-> <<>>]],
    [id |-> 3, name |-> CardName.AceCups, arcana |-> "minor", suit |-> "cups",
     keywords |-> <<<<"N","e","w"," ","L","o","v","e">>, <<"N","e","w"," ","J","o","y">>>>,
     upright |-> [short |-> <<"N","e","w"," ","l","o","v","e">>],
     reversed |-> [short |-> <<"P","a","i","n">>],
     relationships |-> [supporting_cards |-> <<CardName.TwoCups>>,
                        challenging_cards |-> <<>>]],
    [id |-> 4, name |-> CardName.TwoCups, arcana |-> "minor", suit |-> "cups",
     keywords |-> <<<<"L","o","v","e">>, <<"U","n","i","o","n">>>>,
     upright |-> [short |-> <<"U","n","i","o","n">>],
     reversed |-> [short |-> <<"S","t","r","u","g","g","l","e">>],
     relationships |-> [supporting_cards |-> <<>>,
                        challenging_cards |-> <<CardName.PageSwords>>]],
    [id |-> 5, name |-> CardName.TenCups, arcana |-> "minor", suit |-> "cups",
     keywords |-> <<<<"H","a","r","m","o","n","y">>, <<"N","e","w"," ","H","o","m","e">>>>,
     upright |-> [short |-> <<"H","a","p","p","i","n","e","s","s"," ","a","n","d"," ","j","o","y">>],
     reversed |-> [short |-> <<"D","i","f","f","i","c","u","l","t","y"," ","a","t"," ","h","o","m","e">>],
     relationships |-> [supporting_cards |-> <<>>,
                        challenging_cards |-> <<>>]],
    [id |-> 6, name |-> CardName.PageSwords, arcana |-> "minor", suit |-> "swords",
     keywords |-> <<<<"L","o","s","s">>, <<"P","a","i","n">>>>,
     upright |-> [short |-> <<"P","a","i","n",","," ","l","o","s","s",","," ","s","o","r","r","o","w",","," ","f","e","a","r">>],
     reversed |-> [short |-> <<"H","o","p","e">>],
     relationships |-> [supporting_cards |-> <<>>,
                        challenging_cards |-> <<>>]] >>

\* the localized form of a name: "Vi (canonical)"
LocalizedName(name) == <<"V","i"," ","(">> \o name \o <<")">>

\* cards.json of the Vietnamese deck: localized names and meanings
DeckVi ==
    [k \in 1..Len(DeckEn) |->
        [DeckEn[k] EXCEPT !.name = LocalizedName(@),
                          !.upright = [short |-> <<"T","o","t">>],
                          !.reversed = [short |-> <<"X","a","u">>]]]

\* loadCards(lang)
loadCards(lang) == IF lang = "vi" THEN DeckVi ELSE DeckEn

CardIndexes == 1..Len(DeckEn)

\* spreads.json, English
SpreadsEn == <<
    [id |-> "daily", cardCount |-> 1,
     positions |-> <<[position |-> 1, name |-> <<"T","o","d","a","y">>]>>],
    [id |-> "choice", cardCount |-> 2,
     positions |-> <<[position |-> 1, name |-> <<"O","p","t","i","o","n">>],
                       [position |-> 2, name |-> <<"A","d","v","i","c","e">>]>>],
    [id |-> "three", cardCount |-> 3,
     positions |-> <<[position |-> 1, name |-> <<"P","a","s","t">>],
                       [position |-> 2, name |-> <<"P","r","e","s","e","n","t">>],
                       [position |-> 3, name |-> <<"F","u","t","u","r","e">>]>>],
    [id |-> "path", cardCount |-> 3,
     positions |-> <<[position |-> 1, name |-> <<"N","e","a","r"," ","f","u","t","u","r","e">>],
                       [position |-> 2, name |-> <<"I","s","s","u","e">>],
                       [position |-> 3, name |-> <<"O","U","T","C","O","M","E">>]>>],
    [id |-> "cross", cardCount |-> 4,
     positions |-> <<[position |-> 1, name |-> <<"Y","o","u">>],
                       [position |-> 2, name |-> <<"F","i","n","a","l"," ","R","e","s","u","l","t">>],
                       [position |-> 3, name |-> <<"T","h","e","m">>],
                       [position |-> 4, name |-> <<"A","d","v","i","c","e">>]>>] >>

\* spreads.json, Vietnamese
SpreadsVi == <<
    [id |-> "daily", cardCount |-> 1,
     positions |-> <<[position |-> 1, name |-> <<"H","o","m"," ","n","a","y">>]>>],
    [id |-> "choice", cardCount |-> 2,
     positions |-> <<[position |-> 1, name |-> <<"L","u","a"," ","c","h","o","n">>],
                       [position |-> 2, name |-> <<"L","o","i"," ","k","h","u","y","e","n">>]>>],
    [id |-> "three", cardCount |-> 3,
     positions |-> <<[position |-> 1, name |-> <<"Q","u","a"," ","k","h","u">>],
                       [position |-> 2, name |-> <<"H","i","e","n"," ","t","a","i">>],
                       [position |-> 3, name |-> <<"T","u","o","n","g"," ","l","a","i">>]>>],
    [id |-> "path", cardCount |-> 3,
     positions |-> <<[position |-> 1, name |-> <<"T","u","o","n","g"," ","l","a","i">>],
                       [position |-> 2, name |-> <<"V","a","n"," ","d","e">>],
                       [position |-> 3, name |-> <<"K","e","t"," ","q","u","a">>]>>],
    [id |-> "cross", cardCount |-> 4,
     positions |-> <<[position |-> 1, name |-> <<"B","a","n">>],
                       [position |-> 2, name |-> <<"K","e","t"," ","q","u","a">>],
                       [position |-> 3, name |-> <<"H","o">>],
                       [position |-> 4, name |-> <<"L","o","i"," ","k","h","u","y","e","n">>]>>] >>

\* loadSpreads(lang), restricted to the spreads the model draws for
loadSpreads(lang) ==
    LET all == IF lang = "vi" THEN SpreadsVi ELSE SpreadsEn
    IN  SelectSeq(all, LAMBDA sp : sp.cardCount <= MaxSpreadCards)

(***************************************************************************)
(* ReadingAnalyzer: theme                                                  *)
(***************************************************************************)
PositiveKeywords ==
    <<<<"s","u","c","c","e","s","s">>,
      <<"l","o","v","e">>,
      <<"g","r","o","w","t","h">>,
      <<"a","b","u","n","d","a","n","c","e">>,
      <<"j","o","y">>,
      <<"h","a","p","p","i","n","e","s","s">>,
      <<"h","o","p","e">>,
      <<"h","a","r","m","o","n","y">>,
      <<"p","e","a","c","e">>>>

NegativeKeywords ==
    <<<<"c","o","n","f","l","i","c","t">>,
      <<"l","o","s","s">>,
      <<"f","e","a","r">>,
      <<"s","o","r","r","o","w">>,
      <<"s","t","r","u","g","g","l","e">>,
      <<"p","a","i","n">>,
      <<"d","i","f","f","i","c","u","l","t","y">>,
      <<"c","h","a","l","l","e","n","g","e">>>>

\* the number of keywords of the list that the text includes
KeywordHits(text, keywordList) ==
    Cardinality({k \in 1..Len(keywordList) : includes(text, keywordList[k])})

\* the short meaning of the orientation drawn, lower-cased
OrientationText(dc) ==
    toLowerCase(IF dc.reversed THEN dc.card.reversed.short ELSE dc.card.upright.short)

RECURSIVE KeywordScore(_, _)
KeywordScore(cs, keywordList) ==
    IF Len(cs) = 0 THEN 0
    ELSE KeywordHits(OrientationText(cs[1]), keywordList) + KeywordScore(Tail(cs), keywordList)

Abs(x) == IF x < 0 THEN -x ELSE x

\* faulty variant of OverallEnergy: the mixed test comes first
OverallEnergy_MixedFirst(positiveScore, negativeScore) ==
    IF Abs(positiveScore - negativeScore) < 2 THEN "mixed"
    ELSE IF 2 * positiveScore > 3 * negativeScore THEN "positive"
    ELSE IF 2 * negativeScore > 3 * positiveScore THEN "negative"
    ELSE "neutral"

\* the four returns of calculateOverallEnergy; positiveScore > negativeScore * 1.5
\* is compared as 2 * positive > 3 * negative
OverallEnergy(positiveScore, negativeScore) ==
    IF 2 * positiveScore > 3 * negativeScore THEN "positive"
    ELSE IF 2 * negativeScore > 3 * positiveScore THEN "negative"
    ELSE IF Abs(positiveScore - negativeScore) < 2 THEN "mixed"
    ELSE "neutral"

calculateOverallEnergy(cs) ==
    OverallEnergy(KeywordScore(cs, PositiveKeywords), KeywordScore(cs, NegativeKeywords))

Undefined == "undefined"

\* faulty variant of DominantSuit: among the suits with the highest count
\* the last one encountered wins
DominantSuit_LastMax(cs) ==
    LET drawn == [k \in 1..Len(cs) |-> cs[k].card.suit]
        suits == SelectSeq(drawn, LAMBDA su : su # NoSuit)
        count(su) == Cardinality({k \in 1..Len(suits) : suits[k] = su})
        top == {k \in 1..Len(suits) : \A m \in 1..Len(suits) : count(suits[k]) >= count(suits[m])}
    IN  IF Len(suits) = 0 THEN Undefined
        ELSE suits[CHOOSE k \in top : \A m \in top : k >= m]

\* Object.entries(suitCounts).sort(([,a], [,b]) => b - a)[0]?.[0]: the
\* entries are in order of first occurrence and the sort is stable
DominantSuit(cs) ==
    LET drawn == [k \in 1..Len(cs) |-> cs[k].card.suit]
        suits == SelectSeq(drawn, LAMBDA su : su # NoSuit)
        count(su) == Cardinality({k \in 1..Len(suits) : suits[k] = su})
        top == {k \in 1..Len(suits) : \A m \in 1..Len(suits) : count(suits[k]) >= count(suits[m])}
    IN  IF Len(suits) = 0 THEN Undefined
        ELSE suits[CHOOSE k \in top : \A m \in top : k <= m]

\* faulty variant of determinePrimaryTheme: the dominant suit is looked up
\* before the major arcana test
determinePrimaryTheme_SuitFirst(lang, cs, dominantSuit, majorCount) ==
    [language |-> lang,
     template |-> IF dominantSuit \in {"wands", "cups", "swords", "pentacles"}
                  THEN dominantSuit
                  ELSE IF 10 * majorCount >= 6 * Len(cs) THEN "majorHeavy"
                  ELSE "balanced"]

\* majorCount >= this.cards.length * 0.6 is compared as 10 * major >= 6 * length
\* (the two agree for every length up to 10)
determinePrimaryTheme(lang, cs, dominantSuit, majorCount) ==
    [language |-> lang,
     template |-> IF 10 * majorCount >= 6 * Len(cs) THEN "majorHeavy"
                  ELSE IF dominantSuit \in {"wands", "cups", "swords", "pentacles"}
                  THEN dominantSuit
                  ELSE "balanced"]

NameHasAny(dc, parts) == \E k \in 1..Len(parts) : includes(dc.card.name, parts[k])

determineSecondaryThemes(lang, cs) ==
    LET hasLoveCards == \E k \in 1..Len(cs) :
            \/ NameHasAny(cs[k], <<<<"L","o","v","e","r","s">>>>)
            \/ cs[k].card.suit = "cups"
        hasWorkCards == \E k \in 1..Len(cs) :
            \/ cs[k].card.suit = "pentacles"
            \/ NameHasAny(cs[k], <<<<"C","h","a","r","i","o","t">>, <<"E","m","p","e","r","o","r">>>>)
    IN  (IF hasLoveCards THEN <<[language |-> lang, template |-> "relationships"]>> ELSE <<>>)
        \o (IF hasWorkCards THEN <<[language |-> lang, template |-> "career"]>> ELSE <<>>)

analyzeTheme(lang, cs) ==
    LET dominantSuit == DominantSuit(cs)
        majorArcanaCount == Cardinality({k \in 1..Len(cs) : cs[k].card.arcana = "major"})
        courtCardCount == Cardinality({k \in 1..Len(cs) :
            NameHasAny(cs[k], <<<<"K","i","n","g">>,
                            <<"Q","u","e","e","n">>,
                            <<"K","n","i","g","h","t">>,
                            <<"P","a","g","e">>>>)})
    IN  [primaryTheme |-> determinePrimaryTheme(lang, cs, dominantSuit, majorArcanaCount),
         secondaryThemes |-> determineSecondaryThemes(lang, cs),
         overallEnergy |-> calculateOverallEnergy(cs),
         dominantSuit |-> dominantSuit,
         majorArcanaCount |-> majorArcanaCount,
         courtCardCount |-> courtCardCount]

(***************************************************************************)
(* ReadingAnalyzer: interaction scoring                                    *)
(***************************************************************************)
\* if (interaction.strength > 0.3), in tenths
SignificantStrength == 3

\* the capture group of /\(([^)]+)\)$/ in name, or <<>> when there is no match
\* (the group is never empty when the expression matches)
TrailingParenthetical(name) ==
    LET n == Len(name)
        opens == {p \in 1..(n - 2) :
                     /\ name[p] = "("
                     /\ \A k \in (p + 1)..(n - 1) : name[k] # ")"}
    IN  IF n >= 3 /\ name[n] = ")" /\ opens # {}
        THEN LET p == CHOOSE q \in opens : \A r \in opens : q <= r
             IN  SubSeq(name, p + 1, n - 1)
        ELSE <<>>

matchesCardName(cardToMatch, nameToFind) ==
    \/ cardToMatch.name = nameToFind
    \/ /\ TrailingParenthetical(cardToMatch.name) # <<>>
       /\ TrailingParenthetical(cardToMatch.name) = nameToFind
    \/ includes(cardToMatch.name, nameToFind)

isInRelationshipList(card, relationshipList) ==
    \E k \in 1..Len(relationshipList) : matchesCardName(card, relationshipList[k])

\* the words of a card: keywords.join(' ').toLowerCase().split(' ')
KeywordWords(card) == split(toLowerCase(join(card.keywords)))

\* words1.filter(w => words2.includes(w)).length
KeywordOverlap(words1, words2) ==
    Cardinality({k \in 1..Len(words1) : InSeq(words1[k], words2)})

haveSimilarEnergy(card1, card2) ==
    KeywordOverlap(KeywordWords(card1), KeywordWords(card2)) >= 2

\* the text is kept as the template chosen and the values substituted into it
getInteractionInterpretation(lang, card1, card2, type) ==
    [language |-> lang, template |-> type, name1 |-> card1.name, name2 |-> card2.name]

Max(a, b) == IF a >= b THEN a ELSE b

\* the if / else-if chain over the relationship lists
RelationshipMatch(card1, card2) ==
    IF isInRelationshipList(card2, card1.relationships.supporting_cards)
    THEN "supporting"
    ELSE IF isInRelationshipList(card2, card1.relationships.challenging_cards)
    THEN "challenging"
    ELSE IF isInRelationshipList(card1, card2.relationships.supporting_cards)
    THEN "supporting"
    ELSE IF isInRelationshipList(card1, card2.relationships.challenging_cards)
    THEN "challenging"
    ELSE "neutral"

\* faulty variant of StepsTwoToFive: a shared suit always makes the pair
\* complementary
StepsTwoToFive_SuitOverrides(card1, card2) ==
    LET type1 == RelationshipMatch(card1, card2)
        strength1 == IF type1 = "neutral" THEN 0 ELSE 9
        sameSuit == card1.suit = card2.suit /\ card1.suit # NoSuit
        type2 == IF sameSuit THEN "complementary" ELSE type1
        strength2 == IF sameSuit THEN Max(strength1, 5) ELSE strength1
        bothMajor == card1.arcana = "major" /\ card2.arcana = "major"
        strength3 == IF bothMajor THEN Max(strength2, 6) ELSE strength2
    IN  [relationshipType |-> type2, strength |-> strength3]

\* relationshipType and strength before the reversed / upright test:
\* relationship lists, then same suit, then both major arcana
StepsTwoToFive(card1, card2) ==
    LET type1 == RelationshipMatch(card1, card2)
        strength1 == IF type1 = "neutral" THEN 0 ELSE 9
        sameSuit == card1.suit = card2.suit /\ card1.suit # NoSuit
        type2 == IF sameSuit /\ type1 = "neutral" THEN "complementary" ELSE type1
        strength2 == IF sameSuit THEN Max(strength1, 5) ELSE strength1
        bothMajor == card1.arcana = "major" /\ card2.arcana = "major"
        strength3 == IF bothMajor THEN Max(strength2, 6) ELSE strength2
    IN  [relationshipType |-> type2, strength |-> strength3]

\* faulty variant of calculateInteraction: a listed relationship is not
\* overridden by the reversed / upright test
calculateInteraction_KeepRelationship(lang, dc1, dc2) ==
    LET card1 == dc1.card
        card2 == dc2.card
        before == StepsTwoToFive(card1, card2)
        contradict == /\ dc1.reversed # dc2.reversed
                      /\ haveSimilarEnergy(card1, card2)
                      /\ before.relationshipType \notin {"supporting", "challenging"}
        type == IF contradict THEN "contradicting" ELSE before.relationshipType
        strength == IF contradict THEN 7 ELSE before.strength
    IN  [card1 |-> card1,
         card2 |-> card2,
         relationshipType |-> type,
         strength |-> strength,
         interpretation |-> getInteractionInterpretation(lang, card1, card2, type)]

\* faulty variant of calculateInteraction: a contradiction raises the strength
\* to 0.7 and keeps a higher one (Math.max(strength, 0.7))
calculateInteraction_MaxContradiction(lang, dc1, dc2) ==
    LET card1 == dc1.card
        card2 == dc2.card
        before == StepsTwoToFive(card1, card2)
        contradict == dc1.reversed # dc2.reversed /\ haveSimilarEnergy(card1, card2)
        type == IF contradict THEN "contradicting" ELSE before.relationshipType
        strength == IF contradict THEN Max(before.strength, 7) ELSE before.strength
    IN  [card1 |-> card1,
         card2 |-> card2,
         relationshipType |-> type,
         strength |-> strength,
         interpretation |-> getInteractionInterpretation(lang, card1, card2, type)]

calculateInteraction(lang, dc1, dc2) ==
    LET card1 == dc1.card
        card2 == dc2.card
        before == StepsTwoToFive(card1, card2)
        contradict == dc1.reversed # dc2.reversed /\ haveSimilarEnergy(card1, card2)
        type == IF contradict THEN "contradicting" ELSE before.relationshipType
        strength == IF contradict THEN 7 ELSE before.strength
    IN  [card1 |-> card1,
         card2 |-> card2,
         relationshipType |-> type,
         strength |-> strength,
         interpretation |-> getInteractionInterpretation(lang, card1, card2, type)]

\* faulty variant of SortByStrength: comparator a.strength - b.strength
RECURSIVE SortByStrength_Ascending(_)
SortByStrength_Ascending(seq) ==
    IF Len(seq) <= 1 THEN seq
    ELSE LET init == SortByStrength_Ascending(SubSeq(seq, 1, Len(seq) - 1))
             x == seq[Len(seq)]
             keep == Cardinality({k \in 1..Len(init) : init[k].strength <= x.strength})
         IN  SubSeq(init, 1, keep) \o <<x>> \o SubSeq(init, keep + 1, Len(init))

\* Array.prototype.sort((a, b) => b.strength - a.strength): stable, descending
RECURSIVE SortByStrength(_)
SortByStrength(seq) ==
    IF Len(seq) <= 1 THEN seq
    ELSE LET init == SortByStrength(SubSeq(seq, 1, Len(seq) - 1))
             x == seq[Len(seq)]
             keep == Cardinality({k \in 1..Len(init) : init[k].strength >= x.strength})
         IN  SubSeq(init, 1, keep) \o <<x>> \o SubSeq(init, keep + 1, Len(init))

\* the pairs (i, j), i < j, in the order of the two nested loops
RECURSIVE PairLoop(_, _, _)
PairLoop(i, j, n) ==
    IF i > n THEN <<>>
    ELSE IF j > n THEN PairLoop(i + 1, i + 2, n)
    ELSE <<<<i, j>>>> \o PairLoop(i, j + 1, n)

\* faulty variant of analyzeInteractions: every pair is pushed
analyzeInteractions_KeepAll(lang, cs) ==
    LET pairs == PairLoop(1, 2, Len(cs))
        all == [k \in 1..Len(pairs) |->
                   calculateInteraction(lang, cs[pairs[k][1]], cs[pairs[k][2]])]
    IN  SortByStrength(all)

analyzeInteractions(lang, cs) ==
    LET pairs == PairLoop(1, 2, Len(cs))
        all == [k \in 1..Len(pairs) |->
                   calculateInteraction(lang, cs[pairs[k][1]], cs[pairs[k][2]])]
        pushed == SelectSeq(all, LAMBDA it : it.strength > SignificantStrength)
    IN  SortByStrength(pushed)

(***************************************************************************)
(* ReadingAnalyzer: supporting / challenging cards, outcome influencers    *)
(***************************************************************************)
\* faulty variant of TouchedIds: only card1.id is added
TouchedIds_FirstCardOnly(interactions, type) ==
    {interactions[k].card1.id :
        k \in {m \in 1..Len(interactions) : interactions[m].relationshipType = type}}

\* the ids added to the Set of one relationship type
TouchedIds(interactions, type) ==
    UNION {{interactions[k].card1.id, interactions[k].card2.id} :
              k \in {m \in 1..Len(interactions) : interactions[m].relationshipType = type}}

categorizeCards(cs, interactions) ==
    [supporting |-> SelectSeq(cs, LAMBDA dc : dc.card.id \in TouchedIds(interactions, "supporting")),
     challenging |-> SelectSeq(cs, LAMBDA dc : dc.card.id \in TouchedIds(interactions, "challenging"))]

\* faulty variant of IsOutcomeName: no toLowerCase
IsOutcomeName_CaseSensitive(name) ==
    \/ includes(name, <<"f","u","t","u","r","e">>)
    \/ includes(name, <<"o","u","t","c","o","m","e">>)
    \/ includes(name, <<"r","e","s","u","l","t">>)

IsOutcomeName(name) ==
    \/ includes(toLowerCase(name), <<"f","u","t","u","r","e">>)
    \/ includes(toLowerCase(name), <<"o","u","t","c","o","m","e">>)
    \/ includes(toLowerCase(name), <<"r","e","s","u","l","t">>)

\* faulty variant of identifyOutcomeInfluencers: the fallback is the first
\* card, not the last
identifyOutcomeInfluencers_FirstCard(cs, sp) ==
    LET matching == SelectSeq(sp.positions, LAMBDA p : IsOutcomeName(p.name))
        outcomePositions == [k \in 1..Len(matching) |-> matching[k].position]
        outcomeCards == SelectSeq(cs, LAMBDA dc : InSeq(dc.position, outcomePositions))
    IN  IF Len(outcomeCards) > 0 THEN outcomeCards ELSE <<cs[1]>>

identifyOutcomeInfluencers(cs, sp) ==
    LET matching == SelectSeq(sp.positions, LAMBDA p : IsOutcomeName(p.name))
        outcomePositions == [k \in 1..Len(matching) |-> matching[k].position]
        outcomeCards == SelectSeq(cs, LAMBDA dc : InSeq(dc.position, outcomePositions))
    IN  IF Len(outcomeCards) > 0 THEN outcomeCards ELSE <<cs[Len(cs)]>>

(***************************************************************************)
(* ReadingAnalyzer: synthesis.  A text is kept as the template chosen and  *)
(* the values substituted into it.                                         *)
(***************************************************************************)
\* String.prototype.trim
RECURSIVE trim(_)
trim(s) ==
    IF Len(s) = 0 THEN s
    ELSE IF s[1] = " " THEN trim(Tail(s))
    ELSE IF s[Len(s)] = " " THEN trim(SubSeq(s, 1, Len(s) - 1))
    ELSE s

\* faulty variant of generateOpening: the question is not trimmed
generateOpening_NoTrim(lang, theme, q) ==
    [language |-> lang,
     template |-> theme.overallEnergy,
     primaryTheme |-> theme.primaryTheme,
     lowerCased |-> theme.overallEnergy \in {"positive", "negative"},
     questionClause |-> IF Len(q) > 0 THEN <<q>> ELSE <<>>]

\* the positive and negative templates lower-case the primary theme; the
\* question clause is appended when question && question.trim()
generateOpening(lang, theme, q) ==
    [language |-> lang,
     template |-> theme.overallEnergy,
     primaryTheme |-> theme.primaryTheme,
     lowerCased |-> theme.overallEnergy \in {"positive", "negative"},
     questionClause |-> IF Len(q) > 0 /\ Len(trim(q)) > 0 THEN <<q>> ELSE <<>>]

\* faulty variant of FirstTwoNames: names.slice(0, 1)
FirstTwoNames_FirstOnly(list) ==
    [k \in 1..(IF Len(list) < 1 THEN Len(list) ELSE 1) |-> list[k].card.name]

\* names.slice(0, 2)
FirstTwoNames(list) ==
    [k \in 1..(IF Len(list) < 2 THEN Len(list) ELSE 2) |-> list[k].card.name]

\* faulty variant of generateBody: the major arcana paragraph needs ratio > 0.5
generateBody_MoreThanHalf(lang, cs, theme, interactions, supporting, challenging) ==
    LET suitParagraph ==
            IF theme.dominantSuit # Undefined
            THEN <<[paragraph |-> "suit", language |-> lang, suit |-> theme.dominantSuit]>>
            ELSE <<>>
        majorParagraph ==
            IF theme.majorArcanaCount > 0 /\ 2 * theme.majorArcanaCount > Len(cs)
            THEN <<[paragraph |-> "major", language |-> lang, count |-> theme.majorArcanaCount]>>
            ELSE <<>>
        dynamicsParagraph ==
            IF Len(supporting) > 0 \/ Len(challenging) > 0
            THEN IF Len(supporting) > Len(challenging)
                 THEN <<[paragraph |-> "dynamics", language |-> lang, variant |-> "supportive",
                         names |-> FirstTwoNames(supporting), andOthers |-> Len(supporting) > 2]>>
                 ELSE IF Len(challenging) > Len(supporting)
                 THEN <<[paragraph |-> "dynamics", language |-> lang, variant |-> "challenging",
                         names |-> FirstTwoNames(challenging), andOthers |-> Len(challenging) > 2]>>
                 ELSE <<[paragraph |-> "dynamics", language |-> lang, variant |-> "balanced",
                         names |-> <<>>, andOthers |-> FALSE]>>
            ELSE <<>>
        interactionParagraph ==
            IF Len(interactions) > 0
            THEN <<[paragraph |-> "interaction", language |-> lang,
                    name1 |-> interactions[1].card1.name,
                    name2 |-> interactions[1].card2.name,
                    interpretation |-> interactions[1].interpretation]>>
            ELSE <<>>
    IN  suitParagraph \o majorParagraph \o dynamicsParagraph \o interactionParagraph

\* the paragraphs pushed by generateBody, in order
generateBody(lang, cs, theme, interactions, supporting, challenging) ==
    LET suitParagraph ==
            IF theme.dominantSuit # Undefined
            THEN <<[paragraph |-> "suit", language |-> lang, suit |-> theme.dominantSuit]>>
            ELSE <<>>
        majorParagraph ==
            IF theme.majorArcanaCount > 0 /\ 2 * theme.majorArcanaCount >= Len(cs)
            THEN <<[paragraph |-> "major", language |-> lang, count |-> theme.majorArcanaCount]>>
            ELSE <<>>
        dynamicsParagraph ==
            IF Len(supporting) > 0 \/ Len(challenging) > 0
            THEN IF Len(supporting) > Len(challenging)
                 THEN <<[paragraph |-> "dynamics", language |-> lang, variant |-> "supportive",
                         names |-> FirstTwoNames(supporting), andOthers |-> Len(supporting) > 2]>>
                 ELSE IF Len(challenging) > Len(supporting)
                 THEN <<[paragraph |-> "dynamics", language |-> lang, variant |-> "challenging",
                         names |-> FirstTwoNames(challenging), andOthers |-> Len(challenging) > 2]>>
                 ELSE <<[paragraph |-> "dynamics", language |-> lang, variant |-> "balanced",
                         names |-> <<>>, andOthers |-> FALSE]>>
            ELSE <<>>
        interactionParagraph ==
            IF Len(interactions) > 0
            THEN <<[paragraph |-> "interaction", language |-> lang,
                    name1 |-> interactions[1].card1.name,
                    name2 |-> interactions[1].card2.name,
                    interpretation |-> interactions[1].interpretation]>>
            ELSE <<>>
    IN  suitParagraph \o majorParagraph \o dynamicsParagraph \o interactionParagraph

generateConclusion(lang, theme) ==
    [language |-> lang, template |-> theme.overallEnergy]

\* faulty variant of generateAdvice: the challenging sentence comes first
generateAdvice_ChallengingFirst(lang, theme, supporting, challenging) ==
    (IF Len(challenging) > 0
     THEN <<[sentence |-> "challenging", language |-> lang, name |-> challenging[1].card.name]>>
     ELSE <<>>)
    \o (IF Len(supporting) > 0
        THEN <<[sentence |-> "supporting", language |-> lang, name |-> supporting[1].card.name]>>
        ELSE <<>>)
    \o <<[sentence |-> "mirror", language |-> lang, name |-> <<>>]>>

\* faulty variant of generateAdvice: no closing sentence
generateAdvice_NoMirror(lang, theme, supporting, challenging) ==
    (IF Len(supporting) > 0
     THEN <<[sentence |-> "supporting", language |-> lang, name |-> supporting[1].card.name]>>
     ELSE <<>>)
    \o (IF Len(challenging) > 0
        THEN <<[sentence |-> "challenging", language |-> lang, name |-> challenging[1].card.name]>>
        ELSE <<>>)

\* the sentences of the advice, in the order they are concatenated
generateAdvice(lang, theme, supporting, challenging) ==
    (IF Len(supporting) > 0
     THEN <<[sentence |-> "supporting", language |-> lang, name |-> supporting[1].card.name]>>
     ELSE <<>>)
    \o (IF Len(challenging) > 0
        THEN <<[sentence |-> "challenging", language |-> lang, name |-> challenging[1].card.name]>>
        ELSE <<>>)
    \o <<[sentence |-> "mirror", language |-> lang, name |-> <<>>]>>

generateSynthesis(lang, cs, q, theme, interactions, supporting, challenging) ==
    [opening |-> generateOpening(lang, theme, q),
     body |-> generateBody(lang, cs, theme, interactions, supporting, challenging),
     conclusion |-> generateConclusion(lang, theme),
     advice |-> generateAdvice(lang, theme, supporting, challenging)]

\* analyze(), on the fields set by the constructor; each const of the method
\* is bound once to its value
analyze(lang, cs, sp, q) ==
    CHOOSE result \in UNION {
        {[theme |-> theme,
          interactions |-> interactions,
          supportingCards |-> categorized.supporting,
          challengingCards |-> categorized.challenging,
          outcomeInfluencers |-> identifyOutcomeInfluencers(cs, sp),
          synthesis |-> generateSynthesis(lang, cs, q, theme, interactions,
                                          categorized.supporting,
                                          categorized.challenging)] :
            categorized \in {categorizeCards(cs, interactions)}} :
        theme \in {analyzeTheme(lang, cs)},
        interactions \in {analyzeInteractions(lang, cs)}} : TRUE

(***************************************************************************)
(* The reading: a spread is chosen, the cards are picked, the reading is    *)
(* analyzed.                                                               *)
(***************************************************************************)
NoAnalysis == [none |-> TRUE]

Languages == {"en", "vi"}

\* the questions a reading is asked with: none, blanks only, a question
Questions == {<<>>, <<" "," ">>, <<"W","h","y","?">>}

Init ==
    /\ language \in Languages
    /\ spread \in {loadSpreads(language)[k] : k \in 1..Len(loadSpreads(language))}
    /\ cards = <<>>
    /\ question = <<>>
    /\ analysis = NoAnalysis
    /\ calls = <<>>
    /\ IdleOutsideReading

\* CardDeck.selectCard: the clicked card is appended with the next position
\* and a random orientation; the button of a selected card is disabled
selectCard(c, rev) ==
    /\ Len(cards) < spread.cardCount
    /\ \A k \in 1..Len(cards) : cards[k].card.id # loadCards(language)[c].id
    /\ cards' = Append(cards, [card |-> loadCards(language)[c],
                               position |-> Len(cards) + 1,
                               reversed |-> rev])
    /\ UNCHANGED <<language, spread, question, analysis, calls, outsideReading>>

\* faulty variant of analyzeReading: the analysis reverses the drawn cards in
\* place and sets the language of the i18n manager
analyzeReading_Mutating(q) ==
    /\ Len(cards) = spread.cardCount
    /\ analysis = NoAnalysis
    /\ question' = q
    /\ analysis' = analyze(language, cards, spread, q)
    /\ cards' = [k \in 1..Len(cards) |-> cards[Len(cards) + 1 - k]]
    /\ language' = "en"
    /\ UNCHANGED <<spread, calls, outsideReading>>

\* analyzeReading(cards, spread, question) on the completed selection
analyzeReading(q) ==
    /\ Len(cards) = spread.cardCount
    /\ analysis = NoAnalysis
    /\ question' = q
    /\ analysis' = analyze(language, cards, spread, q)
    /\ UNCHANGED <<language, spread, cards, calls, outsideReading>>

Next ==
    \/ \E c \in CardIndexes, rev \in BOOLEAN : selectCard(c, rev)
    \/ \E q \in Questions : analyzeReading(q)

Spec == Init /\ [][Next]_vars

(***************************************************************************)
(* Repeated calls: the analysis of a displayed reading is run again when   *)
(* the question changes, and the language of the i18n manager can be set   *)
(* between two runs.  calls keeps the first and the latest call made, each *)
(* with the language and question it was made with and what it returned;   *)
(* the cards and the spread of a displayed reading are the same for every  *)
(* call.                                                                   *)
(***************************************************************************)
MaxCallCards == 2

\* the questions the displayed reading is asked again with
CallQuestions == {<<>>, <<"W","h","y","?">>}

\* the page is loaded in English: the deck and the spreads are the English
\* ones, whatever language is set later
InitCalls ==
    /\ language = "en"
    /\ spread \in {sp \in {loadSpreads(language)[k] : k \in 1..Len(loadSpreads(language))} :
                      sp.cardCount <= MaxCallCards}
    /\ cards = <<>>
    /\ question = <<>>
    /\ analysis = NoAnalysis
    /\ calls = <<>>
    /\ IdleOutsideReading

\* I18nManager.setLanguage, while a complete reading is displayed
setLanguage(lang) ==
    /\ Len(cards) = spread.cardCount
    /\ lang # language
    /\ language' = lang
    /\ UNCHANGED <<spread, cards, question, analysis, calls, outsideReading>>

\* faulty variant of FullReadingDisplayEffect: the analyzer keeps the
\* language of the call before
FullReadingDisplayEffect_StaleLanguage(q) ==
    /\ Len(cards) = spread.cardCount
    /\ analysis = NoAnalysis \/ q # question
    /\ question' = q
    /\ analysis' = analyze(IF calls = <<>> THEN language ELSE calls[Len(calls)].language,
                           cards, spread, q)
    /\ calls' = (IF calls = <<>> THEN <<>> ELSE <<calls[1]>>)
                 \o <<[language |-> language, question |-> q, result |-> analysis']>>
    /\ UNCHANGED <<language, spread, cards, outsideReading>>

\* the effect of FullReadingDisplay: it runs when the reading is displayed
\* and again whenever the question changes, and keeps what analyzeReading
\* returns
FullReadingDisplayEffect(q) ==
    /\ Len(cards) = spread.cardCount
    /\ analysis = NoAnalysis \/ q # question
    /\ question' = q
    /\ analysis' = analyze(language, cards, spread, q)
    /\ calls' = (IF calls = <<>> THEN <<>> ELSE <<calls[1]>>)
                 \o <<[language |-> language, question |-> q, result |-> analysis']>>
    /\ UNCHANGED <<language, spread, cards, outsideReading>>

NextCalls ==
    \/ \E c \in CardIndexes, rev \in BOOLEAN : selectCard(c, rev)
    \/ \E q \in CallQuestions : FullReadingDisplayEffect(q)
    \/ \E lang \in Languages : setLanguage(lang)

SpecCalls == InitCalls /\ [][NextCalls]_vars

(***************************************************************************)
(* Properties of the analysis                                              *)
(***************************************************************************)
Analyzed == analysis # NoAnalysis

DrawnPairs == {p \in (1..Len(cards)) \X (1..Len(cards)) : p[1] < p[2]}

\* the indexes of the returned interactions between the i-th and j-th card
InteractionsOf(i, j) ==
    {k \in 1..Len(analysis.interactions) :
        /\ analysis.interactions[k].card1 = cards[i].card
        /\ analysis.interactions[k].card2 = cards[j].card}

HasInteraction(i, j) == InteractionsOf(i, j) # {}

InteractionOf(i, j) == analysis.interactions[CHOOSE k \in InteractionsOf(i, j) : TRUE]

\* the reversed / upright test of the code on the i-th and j-th card
ContradictionApplies(i, j) ==
    /\ cards[i].reversed # cards[j].reversed
    /\ haveSimilarEnergy(cards[i].card, cards[j].card)

SeqToSet(seq) == {seq[k] : k \in 1..Len(seq)}

\* the number of distinct words the keyword lists of two cards share
SharedWords(card1, card2) ==
    Cardinality(SeqToSet(KeywordWords(card1)) \cap SeqToSet(KeywordWords(card2)))

SupportingEitherWay(card1, card2) ==
    \/ isInRelationshipList(card2, card1.relationships.supporting_cards)
    \/ isInRelationshipList(card1, card2.relationships.supporting_cards)

ChallengingEitherWay(card1, card2) ==
    \/ isInRelationshipList(card2, card1.relationships.challenging_cards)
    \/ isInRelationshipList(card1, card2.relationships.challenging_cards)

\* C1: the returned interactions are exactly the pairs of drawn cards (i < j)
\* whose strength is above 0.3: none returned at or below it, every pair
\* above it returned once, every pair at or below it absent.
C1_ThresholdExact ==
    Analyzed =>
        /\ \A k \in 1..Len(analysis.interactions) :
               /\ analysis.interactions[k].strength > SignificantStrength
               /\ \E p \in DrawnPairs : k \in InteractionsOf(p[1], p[2])
        /\ \A p \in DrawnPairs :
               LET scored == calculateInteraction(language, cards[p[1]], cards[p[2]])
               IN  IF scored.strength > SignificantStrength
                   THEN /\ Cardinality(InteractionsOf(p[1], p[2])) = 1
                        /\ InteractionOf(p[1], p[2]) = scored
                   ELSE ~HasInteraction(p[1], p[2])

\* C1 witness: an analysis that returned one pair and dropped another
C1_Witness ==
    /\ Analyzed
    /\ \E p, q \in DrawnPairs :
           /\ HasInteraction(p[1], p[2])
           /\ ~HasInteraction(q[1], q[2])
           /\ calculateInteraction(language, cards[q[1]], cards[q[2]]).strength = 0

\* C2: the returned interactions are in descending order of strength.
C2_SortedDescending ==
    Analyzed =>
        \A p, q \in 1..Len(analysis.interactions) :
            p < q => analysis.interactions[p].strength >= analysis.interactions[q].strength

\* C2 witness: the stronger interaction was pushed after the weaker one
\* (its pair comes later in the loops) and is returned before it
C2_Witness ==
    /\ Analyzed
    /\ Len(cards) = 3
    /\ HasInteraction(1, 2)
    /\ HasInteraction(2, 3)
    /\ InteractionOf(1, 2).strength < InteractionOf(2, 3).strength
    /\ analysis.interactions[1] = InteractionOf(2, 3)

\* C3: a pair with opposite reversed flags and enough keyword overlap is
\* returned as contradicting with strength 0.7, whatever the relationship
\* lists, the suits and the arcana say.
C3_ContradictionPrecedence ==
    Analyzed =>
        \A p \in DrawnPairs :
            ContradictionApplies(p[1], p[2]) =>
                /\ HasInteraction(p[1], p[2])
                /\ InteractionOf(p[1], p[2]).relationshipType = "contradicting"
                /\ InteractionOf(p[1], p[2]).strength = 7

\* C3 witness: a contradicting pair of which one card lists the other as
\* supporting and both are major arcana
C3_Witness ==
    /\ Analyzed
    /\ \E p \in DrawnPairs :
           /\ ContradictionApplies(p[1], p[2])
           /\ SupportingEitherWay(cards[p[1]].card, cards[p[2]].card)
           /\ cards[p[1]].card.arcana = "major"
           /\ cards[p[2]].card.arcana = "major"
           /\ InteractionOf(p[1], p[2]).relationshipType = "contradicting"

\* C4 (as claimed): without a contradiction, a supporting-list match in
\* either direction gives supporting with strength 0.9 even if a
\* challenging-list match exists, and challenging is given only when no
\* supporting-list match exists in either direction.
C4_SupportingBeforeChallenging ==
    Analyzed =>
        \A p \in DrawnPairs :
            LET card1 == cards[p[1]].card
                card2 == cards[p[2]].card
            IN  ~ContradictionApplies(p[1], p[2]) =>
                    /\ SupportingEitherWay(card1, card2) =>
                           /\ HasInteraction(p[1], p[2])
                           /\ InteractionOf(p[1], p[2]).relationshipType = "supporting"
                           /\ InteractionOf(p[1], p[2]).strength = 9
                    /\ (/\ HasInteraction(p[1], p[2])
                        /\ InteractionOf(p[1], p[2]).relationshipType = "challenging") =>
                           /\ ~SupportingEitherWay(card1, card2)
                           /\ ChallengingEitherWay(card1, card2)
                           /\ InteractionOf(p[1], p[2]).strength = 9

\* C5 (as claimed): scoring a pair gives the same classification and the
\* same strength whichever of the two cards comes first.
C5_OrderIndependent ==
    Analyzed =>
        \A p \in DrawnPairs :
            LET asDrawn == calculateInteraction(language, cards[p[1]], cards[p[2]])
                swapped == calculateInteraction(language, cards[p[2]], cards[p[1]])
            IN  /\ asDrawn.relationshipType = swapped.relationshipType
                /\ asDrawn.strength = swapped.strength

\* C6 (as claimed): the contradiction rule applies exactly when the reversed
\* flags differ and the keyword lists share at least 2 distinct words;
\* otherwise the classification and strength of steps 2 to 5 are kept.
C6_ContradictionExactlyOnTwoSharedWords ==
    Analyzed =>
        \A p \in DrawnPairs :
            LET card1 == cards[p[1]].card
                card2 == cards[p[2]].card
                before == StepsTwoToFive(card1, card2)
                triggers == /\ cards[p[1]].reversed # cards[p[2]].reversed
                            /\ SharedWords(card1, card2) >= 2
            IN  IF triggers
                THEN /\ HasInteraction(p[1], p[2])
                     /\ InteractionOf(p[1], p[2]).relationshipType = "contradicting"
                     /\ InteractionOf(p[1], p[2]).strength = 7
                ELSE IF HasInteraction(p[1], p[2])
                THEN /\ InteractionOf(p[1], p[2]).relationshipType = before.relationshipType
                     /\ InteractionOf(p[1], p[2]).strength = before.strength
                ELSE before.strength <= SignificantStrength

\* C7: without a contradiction, two cards of the same suit get at least
\* strength 0.5 and are complementary only when no relationship list
\* matched; two major arcana get at least strength 0.6 and the
\* classification is unchanged by it.
C7_SuitAndMajorRules ==
    Analyzed =>
        \A p \in DrawnPairs :
            LET card1 == cards[p[1]].card
                card2 == cards[p[2]].card
                listed == RelationshipMatch(card1, card2)
                listedStrength == IF listed = "neutral" THEN 0 ELSE 9
                sameSuit == card1.suit = card2.suit /\ card1.suit # NoSuit
                bothMajor == card1.arcana = "major" /\ card2.arcana = "major"
            IN  (~ContradictionApplies(p[1], p[2]) /\ (sameSuit \/ bothMajor)) =>
                    /\ HasInteraction(p[1], p[2])
                    /\ InteractionOf(p[1], p[2]).strength =
                           Max(Max(listedStrength, IF sameSuit THEN 5 ELSE 0),
                               IF bothMajor THEN 6 ELSE 0)
                    /\ InteractionOf(p[1], p[2]).relationshipType =
                           IF listed # "neutral" THEN listed
                           ELSE IF sameSuit THEN "complementary"
                           ELSE "neutral"

\* C7 witness: one reading with a same-suit pair that keeps its listed
\* supporting classification and a same-suit pair that became complementary
C7_Witness ==
    /\ Analyzed
    /\ \E p, q \in DrawnPairs :
           /\ ~ContradictionApplies(p[1], p[2])
           /\ ~ContradictionApplies(q[1], q[2])
           /\ cards[p[1]].card.suit = "cups" /\ cards[p[2]].card.suit = "cups"
           /\ cards[q[1]].card.suit = "cups" /\ cards[q[2]].card.suit = "cups"
           /\ InteractionOf(p[1], p[2]).relationshipType = "supporting"
           /\ InteractionOf(p[1], p[2]).strength = 9
           /\ InteractionOf(q[1], q[2]).relationshipType = "complementary"
           /\ InteractionOf(q[1], q[2]).strength = 5

\* a drawn card takes part in a returned interaction of the given type
TakesPart(dc, type) ==
    \E k \in 1..Len(analysis.interactions) :
        /\ analysis.interactions[k].relationshipType = type
        /\ \/ analysis.interactions[k].card1 = dc.card
           \/ analysis.interactions[k].card2 = dc.card

\* the list holds exactly the drawn cards that take part in an interaction
\* of the type, each once and in draw order
ExactlyTheCardsOf(list, type) ==
    /\ \A k \in 1..Len(list) : InSeq(list[k], cards) /\ TakesPart(list[k], type)
    /\ \A i \in 1..Len(cards) : TakesPart(cards[i], type) => InSeq(cards[i], list)
    /\ \A k, m \in 1..Len(list) : k < m => list[k].position < list[m].position

\* C8: supportingCards is exactly the drawn cards of the returned supporting
\* interactions and challengingCards exactly those of the returned
\* challenging interactions, both in draw order.
C8_SupportingChallengingCards ==
    Analyzed =>
        /\ ExactlyTheCardsOf(analysis.supportingCards, "supporting")
        /\ ExactlyTheCardsOf(analysis.challengingCards, "challenging")

\* C8 witness: a reading with two supporting and two challenging cards, one
\* card being both
C8_Witness ==
    /\ Analyzed
    /\ Len(analysis.supportingCards) = 2
    /\ Len(analysis.challengingCards) = 2
    /\ \E i \in 1..Len(cards) :
           /\ InSeq(cards[i], analysis.supportingCards)
           /\ InSeq(cards[i], analysis.challengingCards)

\* the position numbers whose name contains future, outcome or result,
\* read off the spread tables by hand
ExpectedOutcomePositions ==
    IF language = "en"
    THEN CASE spread.id = "three" -> {3}
           [] spread.id = "path" -> {1, 3}
           [] spread.id = "cross" -> {2}
           [] OTHER -> {}
    ELSE {}

\* C9: outcomeInfluencers is never empty, and when no drawn card sits on a
\* future / outcome / result position it is the single last-drawn card, the
\* card of the highest position.
C9_OutcomeNeverEmpty ==
    Analyzed =>
        /\ Len(analysis.outcomeInfluencers) >= 1
        /\ (\A i \in 1..Len(cards) : cards[i].position \notin ExpectedOutcomePositions) =>
               /\ analysis.outcomeInfluencers = <<cards[Len(cards)]>>
               /\ \A i \in 1..Len(cards) :
                      cards[i].position <= analysis.outcomeInfluencers[1].position

\* C9 witness: a reading of several cards on a spread without such a position
C9_Witness ==
    /\ Analyzed
    /\ Len(cards) >= 2
    /\ ExpectedOutcomePositions = {}
    /\ analysis.outcomeInfluencers = <<cards[Len(cards)]>>

MaxScore == 12

Energies == {"positive", "negative", "mixed", "neutral"}

\* the scores of the drawn cards
PositiveScore == KeywordScore(cards, PositiveKeywords)

NegativeScore == KeywordScore(cards, NegativeKeywords)

\* the tests of the classification in the order stated, on scores p and n
EnergyInOrder(e, p, n) ==
    LET isPositive == 2 * p > 3 * n
        isNegative == ~isPositive /\ 2 * n > 3 * p
        isMixed == ~isPositive /\ ~isNegative /\ p - n < 2 /\ n - p < 2
        isNeutral == ~isPositive /\ ~isNegative /\ ~isMixed
    IN  /\ e \in Energies
        /\ (e = "positive") <=> isPositive
        /\ (e = "negative") <=> isNegative
        /\ (e = "mixed") <=> isMixed
        /\ (e = "neutral") <=> isNeutral

EnergyOfEveryScore ==
    \A p \in 0..MaxScore, n \in 0..MaxScore : EnergyInOrder(OverallEnergy(p, n), p, n)

\* C11: the overall energy is positive if p > 1.5 n, else negative if
\* n > 1.5 p, else mixed if |p - n| < 2, else neutral; every pair of scores
\* gets exactly one of the four values and (3, 2) gets mixed.
C11_EnergyOrder ==
    /\ EnergyOfEveryScore
    /\ OverallEnergy(3, 2) = "mixed"
    /\ Analyzed => EnergyInOrder(analysis.theme.overallEnergy, PositiveScore, NegativeScore)

\* C11 witness: a reading with scores (3, 2), analyzed as mixed
C11_Witness ==
    /\ Analyzed
    /\ PositiveScore = 3
    /\ NegativeScore = 2
    /\ analysis.theme.overallEnergy = "mixed"

\* the drawn cards of a reading of the cards with the given deck indexes, upright
UprightReading(indexes) ==
    [k \in 1..Len(indexes) |-> [card |-> DeckEn[indexes[k]], position |-> k, reversed |-> FALSE]]

MajorCount == Cardinality({k \in 1..Len(cards) : cards[k].card.arcana = "major"})

SuitedCards == {k \in 1..Len(cards) : cards[k].card.suit # NoSuit}

\* determinePrimaryTheme on five cards: three major arcana and two cups;
\* two major arcana, two cups and one swords; one major arcana and no
\* dominant suit
PrimaryThemeOfFiveCards ==
    /\ analyzeTheme("en", UprightReading(<<1, 4, 2, 5, 3>>)).dominantSuit = "cups"
    /\ analyzeTheme("en", UprightReading(<<1, 4, 2, 5, 3>>)).primaryTheme.template = "majorHeavy"
    /\ analyzeTheme("en", UprightReading(<<1, 4, 2, 5, 7>>)).primaryTheme.template = "cups"
    /\ determinePrimaryTheme("en", UprightReading(<<4, 5, 6, 7, 1>>), Undefined, 1).template = "balanced"

SuitCount(su) == Cardinality({k \in SuitedCards : cards[k].card.suit = su})

FirstCardOf(su) ==
    CHOOSE k \in SuitedCards :
        /\ cards[k].card.suit = su
        /\ \A m \in SuitedCards : cards[m].card.suit = su => k <= m

\* C13: the dominant suit has the highest count among the drawn cards that
\* have a suit; among several suits with that count it is the one whose first
\* card was drawn earliest; it is undefined exactly when no drawn card has a
\* suit.
C13_DominantSuit ==
    Analyzed =>
        LET dominantSuit == analysis.theme.dominantSuit
        IN  /\ (dominantSuit = Undefined) <=> (SuitedCards = {})
            /\ SuitedCards # {} =>
                   /\ \E k \in SuitedCards : cards[k].card.suit = dominantSuit
                   /\ \A k \in SuitedCards :
                          LET su == cards[k].card.suit
                          IN  /\ SuitCount(su) <= SuitCount(dominantSuit)
                              /\ SuitCount(su) = SuitCount(dominantSuit) =>
                                     FirstCardOf(dominantSuit) <= FirstCardOf(su)

\* C13 witness: one swords card drawn before one cups card; swords is dominant
C13_Witness ==
    /\ Analyzed
    /\ SuitCount("swords") = 1
    /\ SuitCount("cups") = 1
    /\ FirstCardOf("swords") < FirstCardOf("cups")
    /\ analysis.theme.dominantSuit = "swords"

(***************************************************************************)
(* Properties of the synthesis                                             *)
(***************************************************************************)
ParagraphKinds == [k \in 1..Len(analysis.synthesis.body) |-> analysis.synthesis.body[k].paragraph]

\* the paragraphs whose precondition holds, in the fixed order
ExpectedParagraphKinds ==
    (IF SuitedCards # {} THEN <<"suit">> ELSE <<>>)
    \o (IF 2 * MajorCount >= Len(cards) THEN <<"major">> ELSE <<>>)
    \o (IF analysis.supportingCards # <<>> \/ analysis.challengingCards # <<>>
        THEN <<"dynamics">> ELSE <<>>)
    \o (IF analysis.interactions # <<>> THEN <<"interaction">> ELSE <<>>)

\* C14: the body holds, in this order and with nothing else, the dominant
\* suit paragraph iff a dominant suit exists, the major arcana paragraph iff
\* at least half of the cards are major arcana, the supporting / challenging
\* paragraph iff one of the two lists is non-empty, and the top interaction
\* paragraph iff there is an interaction; the last names the two cards of
\* interactions[0], an interaction of the highest strength.
C14_BodyParagraphs ==
    Analyzed =>
        LET body == analysis.synthesis.body
        IN  /\ ParagraphKinds = ExpectedParagraphKinds
            /\ \A k \in 1..Len(body) :
                   /\ body[k].language = language
                   /\ body[k].paragraph = "suit" => body[k].suit = analysis.theme.dominantSuit
                   /\ body[k].paragraph = "major" => body[k].count = MajorCount
                   /\ body[k].paragraph = "interaction" =>
                          /\ body[k].name1 = analysis.interactions[1].card1.name
                          /\ body[k].name2 = analysis.interactions[1].card2.name
                          /\ body[k].interpretation = analysis.interactions[1].interpretation
                          /\ \A m \in 1..Len(analysis.interactions) :
                                 analysis.interactions[1].strength >= analysis.interactions[m].strength

\* C14 witness: a body of all four paragraphs, the last one about the first
\* interaction
C14_Witness ==
    /\ Analyzed
    /\ ParagraphKinds = <<"suit", "major", "dynamics", "interaction">>
    /\ analysis.synthesis.body[4].name1 = analysis.interactions[1].card1.name
    /\ analysis.synthesis.body[4].name2 = analysis.interactions[1].card2.name

\* the supporting / challenging paragraphs of the body
DynamicsParagraphs ==
    {k \in 1..Len(analysis.synthesis.body) : analysis.synthesis.body[k].paragraph = "dynamics"}

Min(a, b) == IF a <= b THEN a ELSE b

InDrawOrder(list) == \A a, b \in 1..Len(list) : a < b => list[a].position < list[b].position

\* C15: the supporting / challenging paragraph is the supportive variant iff
\* there are more supporting than challenging cards, the challenging variant
\* iff there are more challenging than supporting cards, the balanced variant
\* iff the numbers are equal; the majority variant names the first min(2,
\* length) cards of the majority list, in draw order, and has the "and others"
\* suffix iff that list has more than 2 cards.
C15_DynamicsVariant ==
    Analyzed =>
        \A k \in DynamicsParagraphs :
            LET dynamics == analysis.synthesis.body[k]
                supporting == analysis.supportingCards
                challenging == analysis.challengingCards
                majority == IF Len(supporting) > Len(challenging) THEN supporting ELSE challenging
            IN  /\ (dynamics.variant = "supportive") <=> (Len(supporting) > Len(challenging))
                /\ (dynamics.variant = "challenging") <=> (Len(challenging) > Len(supporting))
                /\ (dynamics.variant = "balanced") <=> (Len(supporting) = Len(challenging))
                /\ dynamics.variant # "balanced" =>
                       /\ InDrawOrder(majority)
                       /\ Len(dynamics.names) = Min(2, Len(majority))
                       /\ \A m \in 1..Len(dynamics.names) : dynamics.names[m] = majority[m].card.name
                       /\ dynamics.andOthers <=> (Len(majority) > 2)

\* C15 witness: three supporting cards against none; two are named, with the
\* "and others" suffix
C15_Witness ==
    /\ Analyzed
    /\ Len(analysis.supportingCards) = 3
    /\ Len(analysis.challengingCards) = 0
    /\ \E k \in DynamicsParagraphs :
           /\ analysis.synthesis.body[k].variant = "supportive"
           /\ analysis.synthesis.body[k].names = <<cards[1].card.name, cards[2].card.name>>
           /\ analysis.synthesis.body[k].andOthers

AdviceSentences ==
    [k \in 1..Len(analysis.synthesis.advice) |-> analysis.synthesis.advice[k].sentence]

\* the index of the sentence of a kind in the advice, 0 when there is none
SentenceAt(kind) ==
    IF \E k \in 1..Len(AdviceSentences) : AdviceSentences[k] = kind
    THEN CHOOSE k \in 1..Len(AdviceSentences) : AdviceSentences[k] = kind
    ELSE 0

\* C16: the advice is, in this order, a sentence naming supportingCards[0]
\* iff there is a supporting card, a sentence naming challengingCards[0] iff
\* there is a challenging card, and the closing "mirror" sentence, always
\* present and always last.
C16_AdviceOrder ==
    Analyzed =>
        LET advice == analysis.synthesis.advice
            n == Len(advice)
        IN  /\ n >= 1
            /\ advice[n].sentence = "mirror"
            /\ \A k \in 1..n : advice[k].language = language
            /\ \A k, m \in 1..n : advice[k].sentence = advice[m].sentence => k = m
            /\ \A k \in 1..n : advice[k].sentence \in {"supporting", "challenging", "mirror"}
            /\ (SentenceAt("supporting") # 0) <=> (analysis.supportingCards # <<>>)
            /\ (SentenceAt("challenging") # 0) <=> (analysis.challengingCards # <<>>)
            /\ SentenceAt("supporting") # 0 =>
                   /\ SentenceAt("supporting") = 1
                   /\ advice[1].name = analysis.supportingCards[1].card.name
            /\ SentenceAt("challenging") # 0 =>
                   advice[SentenceAt("challenging")].name = analysis.challengingCards[1].card.name

\* C16 witness: an advice of all three sentences, whose supporting and
\* challenging sentences name different cards
C16_Witness ==
    /\ Analyzed
    /\ AdviceSentences = <<"supporting", "challenging", "mirror">>
    /\ analysis.synthesis.advice[1].name = analysis.supportingCards[1].card.name
    /\ analysis.synthesis.advice[2].name = analysis.challengingCards[1].card.name
    /\ analysis.synthesis.advice[1].name # analysis.synthesis.advice[2].name

\* the question has a character that is not a blank
NonBlank(q) == \E k \in 1..Len(q) : q[k] # " "

\* C17: the opening is the template of the overall energy with the primary
\* theme interpolated; the question clause is appended iff the question is
\* non-empty after trimming, so an empty or blank question leaves the bare
\* template.
C17_Opening ==
    Analyzed =>
        LET opening == analysis.synthesis.opening
        IN  /\ opening.language = language
            /\ opening.template \in Energies
            /\ opening.template = analysis.theme.overallEnergy
            /\ opening.primaryTheme = analysis.theme.primaryTheme
            /\ (opening.questionClause # <<>>) <=> NonBlank(question)
            /\ NonBlank(question) => opening.questionClause = <<question>>

\* C17 witness: a question of blanks only, and an opening without the clause
C17_Witness ==
    /\ Analyzed
    /\ Len(question) > 0
    /\ ~NonBlank(question)
    /\ analysis.synthesis.opening.questionClause = <<>>

\* no pair of drawn cards is scored above 0.3
NoSignificantPair ==
    \A p \in DrawnPairs :
        calculateInteraction(language, cards[p[1]], cards[p[2]]).strength <= SignificantStrength

\* C18: when no pair of drawn cards has a strength above 0.3, the analysis
\* has no interactions, no supporting and no challenging cards, the body has
\* neither the supporting / challenging nor the top interaction paragraph,
\* and the opening, the conclusion and the advice are still there.
C18_EmptyInteractions ==
    (Analyzed /\ NoSignificantPair) =>
        /\ analysis.interactions = <<>>
        /\ analysis.supportingCards = <<>>
        /\ analysis.challengingCards = <<>>
        /\ \A k \in 1..Len(ParagraphKinds) : ParagraphKinds[k] \notin {"dynamics", "interaction"}
        /\ analysis.synthesis.opening.template \in Energies
        /\ analysis.synthesis.conclusion.template \in Energies
        /\ Len(analysis.synthesis.advice) >= 1

\* C18 witness: two minor arcana cards of different suits with opposite
\* reversed flags and no interaction
C18_Witness ==
    /\ Analyzed
    /\ Len(cards) = 2
    /\ cards[1].card.arcana = "minor"
    /\ cards[2].card.arcana = "minor"
    /\ cards[1].card.suit # cards[2].card.suit
    /\ cards[1].reversed # cards[2].reversed
    /\ NoSignificantPair
    /\ analysis.interactions = <<>>
    /\ ParagraphKinds = <<"suit">>
    /\ AdviceSentences = <<"mirror">>

(***************************************************************************)
(* Properties of repeated calls                                            *)
(***************************************************************************)
\* the first and the latest call were made with the same language and
\* question, on the cards and spread of the displayed reading
SameInputsTwice ==
    /\ Len(calls) = 2
    /\ calls[1].language = calls[2].language
    /\ calls[1].question = calls[2].question

C20_NoSideEffects ==
    [][analysis' # analysis =>
          /\ cards' = cards
          /\ spread' = spread
          /\ language' = language]_vars

\* C20 witness: a reading of three cards has been analyzed; its cards are
\* still in draw order, with relationship lists and keywords
C20_Witness ==
    /\ Analyzed
    /\ Len(cards) = 3
    /\ \A k \in 1..Len(cards) : cards[k].position = k
    /\ \E k \in 1..Len(cards) : cards[k].card.relationships.supporting_cards # <<>>
    /\ \A k \in 1..Len(cards) : cards[k].card.keywords # <<>>
    /\ Len(spread.positions) = 3


(***************************************************************************)
(* The card picker (CardDeck), in its two versions: CardDeck.tsx shows the *)
(* first cards of the shuffled deck and disables the shuffle button once a *)
(* card is selected; part_002 shows the whole deck and offers the shuffle  *)
(* button as long as a card can be drawn.  A timeout set by a handler is   *)
(* kept in deckTimers with the values its callback closes over, and fires  *)
(* as a step of its own.                                                   *)
(***************************************************************************)
\* number of card ids of the deck (78 in the code)
DeckSize == 4

\* largest cardCount the picker is mounted with
MaxCardCount == 2

\* number of cards CardDeck.tsx shows of the deck (deck.slice(0, 20) of 78)
ShownCards == 3

DeckVersions == {"CardDeck.tsx", "part_002"}

\* Array.from({ length: 78 }, (_, i) => i)
cardIds == [i \in 1..DeckSize |-> i - 1]

\* the values crypto.getRandomValues can fill the array with, as far as the
\* remainders taken of them differ
RandomValues == [1..DeckSize -> 0..(DeckSize - 1)]

\* the loop of shuffleDeck from index i (counted from 0) down to 1
RECURSIVE ShuffleLoop(_, _, _)
ShuffleLoop(shuffled, randomValues, i) ==
    IF i <= 0
    THEN shuffled
    ELSE ShuffleLoop(
             [shuffled EXCEPT ![i + 1] = shuffled[(randomValues[i + 1] % (i + 1)) + 1],
                              ![(randomValues[i + 1] % (i + 1)) + 1] = shuffled[i + 1]],
             randomValues, i - 1)

\* shuffleDeck(array), with the random values it draws
shuffleDeck(array, randomValues) ==
    ShuffleLoop(array, randomValues, Len(array) - 1)

\* every deck shuffleDeck(cardIds) can return
Shuffles == {shuffleDeck(cardIds, r) : r \in RandomValues}

\* selectedCards.some(sc => sc.cardId === cardId)
isSelected(cardId) ==
    \E k \in 1..Len(selectedCards) : selectedCards[k].cardId = cardId

\* part_002: remainingCards > 0 && !isRevealing
canDrawNext == cardCount - Len(selectedCards) > 0 /\ ~isRevealing

\* the positions of the deck that are rendered as buttons
RenderedIndexes ==
    IF isShuffling THEN {}
    ELSE IF deckVersion = "CardDeck.tsx"
         THEN {i \in 1..Len(deck) : i <= ShownCards}
         ELSE IF Len(deck) > 0 /\ canDrawNext THEN 1..Len(deck) ELSE {}

\* the shuffle button can be clicked
ShuffleButtonEnabled ==
    IF deckVersion = "CardDeck.tsx"
    THEN ~(isShuffling \/ Len(selectedCards) > 0)
    ELSE ~isShuffling /\ Len(deck) > 0 /\ canDrawNext

\* the component is mounted: its effect has called shuffleCards
InitDeck ==
    /\ IdleOutsideDeck
    /\ deckVersion \in DeckVersions
    /\ cardCount \in 1..MaxCardCount
    /\ deck = <<>>
    /\ selectedCards = <<>>
    /\ isShuffling = TRUE
    /\ isRevealing = FALSE
    /\ \E shuffled \in Shuffles :
           deckTimers = {[callback |-> "setDeck", shuffled |-> shuffled]}
    /\ onCardsSelected = <<>>

\* a click of the shuffle button: shuffleCards
shuffleCards(shuffled) ==
    /\ ShuffleButtonEnabled
    /\ isShuffling' = TRUE
    /\ selectedCards' = <<>>
    /\ isRevealing' = FALSE
    /\ deckTimers' = deckTimers \cup {[callback |-> "setDeck", shuffled |-> shuffled]}
    /\ UNCHANGED <<deckVersion, cardCount, deck, onCardsSelected, outsideDeck>>

\* the timeout of shuffleCards fires
shuffleTimeout(timer) ==
    /\ timer \in deckTimers
    /\ timer.callback = "setDeck"
    /\ deck' = timer.shuffled
    /\ isShuffling' = FALSE
    /\ deckTimers' = deckTimers \ {timer}
    /\ UNCHANGED <<deckVersion, cardCount, selectedCards, isRevealing,
                   onCardsSelected, outsideDeck>>

\* faulty variant of deckSelectCard: the button of a selected card is not
\* disabled
deckSelectCard_Reselect(index, reversed) ==
    /\ index \in RenderedIndexes
    /\ Len(selectedCards) < cardCount
    /\ selectedCards' = Append(selectedCards,
                               [cardId |-> deck[index], reversed |-> reversed,
                                position |-> Len(selectedCards) + 1])
    /\ IF Len(selectedCards') = cardCount
       THEN /\ isRevealing' = (deckVersion = "part_002")
            /\ deckTimers' = deckTimers \cup
                   {[callback |-> "onCardsSelected", newSelection |-> selectedCards']}
       ELSE UNCHANGED <<isRevealing, deckTimers>>
    /\ UNCHANGED <<deckVersion, cardCount, deck, isShuffling, onCardsSelected,
                   outsideDeck>>

\* a click of a rendered card button whose card can be selected:
\* CardDeck.selectCard(index), with the orientation isReversed() draws
deckSelectCard(index, reversed) ==
    /\ index \in RenderedIndexes
    /\ ~isSelected(deck[index])
    /\ IF deckVersion = "CardDeck.tsx"
       THEN Len(selectedCards) < cardCount
       ELSE canDrawNext
    /\ Len(selectedCards) < cardCount
    /\ selectedCards' = Append(selectedCards,
                               [cardId |-> deck[index], reversed |-> reversed,
                                position |-> Len(selectedCards) + 1])
    /\ IF Len(selectedCards') = cardCount
       THEN /\ isRevealing' = (deckVersion = "part_002")
            /\ deckTimers' = deckTimers \cup
                   {[callback |-> "onCardsSelected", newSelection |-> selectedCards']}
       ELSE UNCHANGED <<isRevealing, deckTimers>>
    /\ UNCHANGED <<deckVersion, cardCount, deck, isShuffling, onCardsSelected,
                   outsideDeck>>

\* the timeout of selectCard fires: onCardsSelected(newSelection)
notifyTimeout(timer) ==
    /\ timer \in deckTimers
    /\ timer.callback = "onCardsSelected"
    /\ onCardsSelected' = Append(onCardsSelected, timer.newSelection)
    /\ deckTimers' = deckTimers \ {timer}
    /\ UNCHANGED <<deckVersion, cardCount, deck, selectedCards, isShuffling,
                   isRevealing, outsideDeck>>

NextDeck ==
    \/ \E shuffled \in Shuffles : shuffleCards(shuffled)
    \/ \E timer \in deckTimers : shuffleTimeout(timer)
    \/ \E index \in 1..DeckSize, reversed \in BOOLEAN : deckSelectCard(index, reversed)
    \/ \E timer \in deckTimers : notifyTimeout(timer)

SpecDeck == InitDeck /\ [][NextDeck]_vars

\* C21: the picker never holds more than cardCount selected cards, and every
\* selection handed to onCardsSelected has exactly cardCount cards, the k-th
\* with position k, with pairwise distinct card ids.
C21_Selection ==
    /\ Len(selectedCards) <= cardCount
    /\ \A n \in 1..Len(onCardsSelected) :
           /\ Len(onCardsSelected[n]) = cardCount
           /\ \A k \in 1..Len(onCardsSelected[n]) :
                  onCardsSelected[n][k].position = k
           /\ \A k, m \in 1..Len(onCardsSelected[n]) :
                  k # m => onCardsSelected[n][k].cardId # onCardsSelected[n][m].cardId

\* a selection of MaxCardCount cards was handed over by the version whose
\* shuffle button stays available, from a deck that is not in its first order
C21_Witness ==
    /\ deckVersion = "part_002"
    /\ cardCount = MaxCardCount
    /\ Len(onCardsSelected) = 1
    /\ Len(onCardsSelected[1]) = MaxCardCount
    /\ deck # cardIds


(***************************************************************************)
(* The reading limit (canDoReading, recordReading, getRemainingReadings).  *)
(* Time is counted in ticks of half an hour, so that Math.ceil of a number *)
(* of hours has something to round.  readingLimit is the item of that name *)
(* in localStorage: stored tells whether getItem returns a string, and     *)
(* readings is the array of the stored object.                             *)
(***************************************************************************)
READING_LIMIT == 5

RESET_HOURS == 24

\* 60 * 60 * 1000 milliseconds in the code
TicksPerHour == 2

\* the clock stops at MaxClock, and at most MaxRecorded readings are recorded
MaxClock == 96

MaxRecorded == 6

\* the amounts of time that pass between two calls: half a day, and one tick
\* less than the reset time
Advances == {12 * TicksPerHour, RESET_HOURS * TicksPerHour - 1}

\* JSON.parse(localStorage.getItem('readingLimit') || '{"readings":[]}')
ParsedLimitData ==
    IF readingLimit.stored
    THEN [readings |-> readingLimit.readings]
    ELSE [readings |-> <<>>]

\* now - RESET_HOURS * 60 * 60 * 1000
Cutoff == now - RESET_HOURS * TicksPerHour

\* faulty variant of RecentReadings: a reading made exactly at the cutoff is
\* kept
RecentReadings_AtCutoff(readings) ==
    SelectSeq(readings, LAMBDA ts : ts >= Cutoff)

\* readings.filter((ts) => ts > cutoff)
RecentReadings(readings) ==
    SelectSeq(readings, LAMBDA ts : ts > Cutoff)

\* Math.min(...readings) of a non-empty array
MinOf(readings) ==
    CHOOSE ts \in {readings[k] : k \in 1..Len(readings)} :
        \A k \in 1..Len(readings) : ts <= readings[k]

\* faulty variant of CeilDiv: Math.floor
CeilDiv_Floor(a, b) == a \div b

\* Math.ceil(a / b) for b > 0
CeilDiv(a, b) == -((-a) \div b)

\* canDoReading(): allowed, and hoursLeft when not allowed
canDoReading ==
    IF ~localStorageDefined
    THEN [allowed |-> TRUE]
    ELSE IF Len(RecentReadings(ParsedLimitData.readings)) >= READING_LIMIT
         THEN [allowed |-> FALSE,
               hoursLeft |-> CeilDiv(MinOf(RecentReadings(ParsedLimitData.readings))
                                       + RESET_HOURS * TicksPerHour - now,
                                     TicksPerHour)]
         ELSE [allowed |-> TRUE]

\* getRemainingReadings()
getRemainingReadings ==
    IF ~localStorageDefined
    THEN READING_LIMIT
    ELSE Max(0, READING_LIMIT - Len(RecentReadings(ParsedLimitData.readings)))

InitLimit ==
    /\ IdleOutsideLimit
    /\ now = 0
    /\ localStorageDefined \in BOOLEAN
    /\ readingLimit = [stored |-> FALSE, readings |-> <<>>]
    /\ recorded = <<>>
    /\ limitResult = [called |-> FALSE]

\* time passes
advanceClock(d) ==
    /\ now + d <= MaxClock
    /\ now' = now + d
    /\ UNCHANGED <<localStorageDefined, readingLimit, recorded, limitResult,
                   outsideLimit>>

\* recordReading(): without localStorage it returns at once
recordReading ==
    /\ Len(recorded) < MaxRecorded
    /\ IF localStorageDefined
       THEN /\ readingLimit' = [stored |-> TRUE,
                                readings |-> Append(ParsedLimitData.readings, now)]
            /\ recorded' = Append(recorded, now)
       ELSE UNCHANGED <<readingLimit, recorded>>
    /\ UNCHANGED <<now, localStorageDefined, limitResult, outsideLimit>>

\* a call of canDoReading(): the caller keeps what it returned; the array it
\* filters is the parsed copy, and nothing is written to localStorage
callCanDoReading ==
    /\ limitResult' = [called |-> TRUE, at |-> now, result |-> canDoReading]
    /\ UNCHANGED <<now, localStorageDefined, readingLimit, recorded, outsideLimit>>

NextLimit ==
    \/ \E d \in Advances : advanceClock(d)
    \/ recordReading
    \/ callCanDoReading

SpecLimit == InitLimit /\ [][NextLimit]_vars

\* the number of readings recordReading stored less than RESET_HOURS ago
RecordedInLastDay ==
    Cardinality({k \in 1..Len(recorded) :
                     now - recorded[k] < RESET_HOURS * TicksPerHour})

\* C22: whenever canDoReading is called, it returns allowed = false exactly
\* when at least READING_LIMIT readings were recorded by recordReading in the
\* RESET_HOURS hours before the call, and the call leaves the stored list as
\* it was.
C22_ReadingLimit ==
    [][limitResult' # limitResult =>
          /\ limitResult'.result.allowed = (RecordedInLastDay < READING_LIMIT)
          /\ readingLimit' = readingLimit]_vars

\* canDoReading has refused a reading while an older reading, no longer
\* counted, is still stored
C22_Witness ==
    /\ limitResult.called
    /\ limitResult.at = now
    /\ ~limitResult.result.allowed
    /\ Len(readingLimit.readings) > Len(RecentReadings(readingLimit.readings))


(***************************************************************************)
(* FullReadingDisplay.  The props cards and spread are objects: a prop is  *)
(* kept as a reference (an index of PropCards, of PropSpreads), and React  *)
(* compares the dependencies of an effect by Object.is, that is by         *)
(* reference for objects and by value for the question string.  A render   *)
(* is one step with the cleanup and the effect it runs.  A timeout is kept *)
(* with its id and the props its callback closes over.                     *)
(***************************************************************************)
\* largest number of timeouts the component sets
MaxTimers == 3

\* the arrays the parent passes as cards: the first two are different arrays
\* of the same drawn cards
PropCards ==
    <<[k \in 1..2 |-> [card |-> loadCards("en")[k], position |-> k, reversed |-> FALSE]],
      [k \in 1..2 |-> [card |-> loadCards("en")[k], position |-> k, reversed |-> FALSE]],
      [k \in 1..2 |-> [card |-> loadCards("en")[k + 1], position |-> k, reversed |-> FALSE]]>>

\* the objects the parent passes as spread: two objects of the same spread
PropSpreads == <<SpreadsEn[2], SpreadsEn[2]>>

PropsOfDisplay ==
    [cards : 1..Len(PropCards), spread : 1..Len(PropSpreads), question : CallQuestions]

\* the dependencies [cards, spread, question] differ between two renders
DepsChanged(old, new) ==
    \/ new.cards # old.cards
    \/ new.spread # old.spread
    \/ new.question # old.question

\* setTimeout(() => {...}, 1500) in a render with the given props
NewTimer(props) ==
    [id |-> timersSet + 1, cards |-> props.cards, spread |-> props.spread,
     question |-> props.question]

\* the cleanup of the latest effect: clearTimeout(timer)
ClearLatestTimer == {t \in displayTimers : t.id # timersSet}

\* the component is mounted and its effect has run
InitDisplay ==
    /\ IdleOutsideDisplay
    /\ displayMounted = TRUE
    /\ displayProps \in PropsOfDisplay
    /\ displayAnalysis = NoAnalysis
    /\ displayLoading = TRUE
    /\ displayTimers = {[id |-> 1, cards |-> displayProps.cards,
                         spread |-> displayProps.spread,
                         question |-> displayProps.question]}
    /\ timersSet = 1
    /\ analyzedBy = [none |-> TRUE]

\* faulty variant of renderDisplay: the effect has no dependency array and
\* runs after every render
renderDisplay_NoDeps(props) ==
    /\ displayMounted
    /\ timersSet < MaxTimers
    /\ displayProps' = props
    /\ displayTimers' = ClearLatestTimer \cup {NewTimer(props)}
    /\ timersSet' = timersSet + 1
    /\ UNCHANGED <<displayMounted, displayAnalysis, displayLoading, analyzedBy,
                   outsideDisplay>>

\* faulty variant of renderDisplay: the effect returns no cleanup
renderDisplay_NoCleanup(props) ==
    /\ displayMounted
    /\ displayProps' = props
    /\ IF DepsChanged(displayProps, props)
       THEN /\ timersSet < MaxTimers
            /\ displayTimers' = displayTimers \cup {NewTimer(props)}
            /\ timersSet' = timersSet + 1
       ELSE UNCHANGED <<displayTimers, timersSet>>
    /\ UNCHANGED <<displayMounted, displayAnalysis, displayLoading, analyzedBy,
                   outsideDisplay>>

\* the parent renders the component with props: when a dependency of the
\* effect changed, the cleanup of the latest effect runs and the effect sets
\* a new timeout
renderDisplay(props) ==
    /\ displayMounted
    /\ displayProps' = props
    /\ IF DepsChanged(displayProps, props)
       THEN /\ timersSet < MaxTimers
            /\ displayTimers' = ClearLatestTimer \cup {NewTimer(props)}
            /\ timersSet' = timersSet + 1
       ELSE UNCHANGED <<displayTimers, timersSet>>
    /\ UNCHANGED <<displayMounted, displayAnalysis, displayLoading, analyzedBy,
                   outsideDisplay>>

\* a timeout fires: analyzeReading(cards, spread, question) on the props the
\* callback closes over, setAnalysis, setIsLoading(false)
displayTimeout(timer) ==
    /\ timer \in displayTimers
    /\ displayAnalysis' = analyze(language, PropCards[timer.cards],
                                  PropSpreads[timer.spread], timer.question)
    /\ displayLoading' = FALSE
    /\ analyzedBy' = timer
    /\ displayTimers' = displayTimers \ {timer}
    /\ UNCHANGED <<displayMounted, displayProps, timersSet, outsideDisplay>>

\* the component is unmounted: the cleanup of the latest effect runs
unmountDisplay ==
    /\ displayMounted
    /\ displayMounted' = FALSE
    /\ displayTimers' = ClearLatestTimer
    /\ UNCHANGED <<displayProps, displayAnalysis, displayLoading, timersSet,
                   analyzedBy, outsideDisplay>>

NextDisplay ==
    \/ \E props \in PropsOfDisplay : renderDisplay(props)
    \/ \E timer \in displayTimers : displayTimeout(timer)
    \/ unmountDisplay

SpecDisplay == InitDisplay /\ [][NextDisplay]_vars

\* C23, as the code has it: after the mount, FullReadingDisplay sets a
\* timeout for a new analyzeReading call only in a render in which cards,
\* spread or question differs from the render before (objects by reference);
\* a render with all three unchanged sets none.
C23_RecomputeOnDeps ==
    [][timersSet' # timersSet => DepsChanged(displayProps, displayProps')]_vars

\* an analysis is stored and a later render has set a new timeout
C23_Witness ==
    /\ displayAnalysis # NoAnalysis
    /\ timersSet > analyzedBy.id
    /\ \E t \in displayTimers : t.id = timersSet

\* C23, as stated: a timeout for a new analyzeReading call is set only in a
\* render in which the cards prop changed.
C23_RecomputeOnCardsOnly ==
    [][timersSet' # timersSet => displayProps'.cards # displayProps.cards]_vars

ClassRank(type) ==
    IF type \in {"supporting", "challenging"} THEN 1
    ELSE IF type = "contradicting" THEN 2
    ELSE 3

\* C24: in every interaction returned by analyze the classification fixes
\* the strength: supporting and challenging 0.9, contradicting 0.7,
\* complementary 0.5 or 0.6, neutral 0.6 with both cards major arcana; so
\* supporting/challenging interactions precede contradicting ones, which
\* precede complementary/neutral ones, and the first interaction is
\* supporting or challenging whenever there is one.
C24_StrengthByClass ==
    Analyzed =>
        /\ \A k \in 1..Len(analysis.interactions) :
               /\ analysis.interactions[k].relationshipType \in {"supporting", "challenging"}
                      => analysis.interactions[k].strength = 9
               /\ analysis.interactions[k].relationshipType = "contradicting"
                      => analysis.interactions[k].strength = 7
               /\ analysis.interactions[k].relationshipType = "complementary"
                      => analysis.interactions[k].strength \in {5, 6}
               /\ analysis.interactions[k].relationshipType = "neutral"
                      => /\ analysis.interactions[k].strength = 6
                         /\ analysis.interactions[k].card1.arcana = "major"
                         /\ analysis.interactions[k].card2.arcana = "major"
        /\ \A k, m \in 1..Len(analysis.interactions) :
               ClassRank(analysis.interactions[k].relationshipType)
                   < ClassRank(analysis.interactions[m].relationshipType) => k < m
        /\ (\E k \in 1..Len(analysis.interactions) :
                ClassRank(analysis.interactions[k].relationshipType) = 1)
               => ClassRank(analysis.interactions[1].relationshipType) = 1

\* a reading whose interactions are of all three ranks, the first one found
\* by the pair loop not being of the first rank
C24_Witness ==
    /\ Analyzed
    /\ Len(analysis.interactions) = 3
    /\ ClassRank(analysis.interactions[1].relationshipType) = 1
    /\ ClassRank(analysis.interactions[2].relationshipType) = 2
    /\ ClassRank(analysis.interactions[3].relationshipType) = 3
    /\ analysis.interactions[1].card1 # cards[1].card


(***************************************************************************)
(* Text to speech: TextToSpeechManager, the speech synthesis of the        *)
(* browser, and MysteryVoiceButton.  An utterance is named by the number   *)
(* of the speak call that created it, 0 is null; an interval is named by   *)
(* the utterance whose start event set it.  The manager is called either   *)
(* directly (speak, stop) or by the button (handleToggle); the callbacks   *)
(* of a call are counted in speakCalls, and those of the button set its    *)
(* state.  When the synthesis is cancelled it may owe the cancelled        *)
(* utterance an end event or an error event, or neither, depending on the  *)
(* browser; the owed event is dispatched later, as a step of its own.      *)
(***************************************************************************)
\* largest number of calls of speak
MaxSpeakCalls == 3

Callers == {"direct", "button"}

CancelOutcomes == {"none", "end", "error"}

NoError == "null"

buttonVars == <<isPlaying, isPaused, error, pollIntervals, stopClicked>>

\* synthesis.speaking
isSpeaking == synthUtterance # 0 /\ synthStarted

\* the calls of speak that wait for waitForVoices
WaitingCalls == {c \in 1..Len(speakCalls) : speakCalls[c].state = "waiting"}

\* a new call of speak(text, language, options)
NewCall(lang) ==
    [language |-> lang, state |-> "waiting", onStart |-> 0, onError |-> 0,
     handed |-> FALSE]

\* the events owed after synthesis.cancel()
LateAfterCancel(outcome) ==
    IF synthUtterance = 0 \/ outcome = "none"
    THEN lateEvents
    ELSE lateEvents \cup {[utterance |-> synthUtterance, type |-> outcome]}

\* stop(), as far as the interval and the events owed go: clearInterval of
\* the interval the field holds, and synthesis.cancel()
StopClears(outcome) ==
    /\ intervals' = intervals \ {keepAliveInterval}
    /\ keepAliveInterval' = 0
    /\ lateEvents' = LateAfterCancel(outcome)

\* the state the button's onError callback and the catch of handleToggle set
ButtonFails(message, u) ==
    IF ttsCaller = "button"
    THEN /\ error' = message
         /\ isPlaying' = FALSE
         /\ isPaused' = FALSE
         /\ pollIntervals' = pollIntervals \ {u}
         /\ UNCHANGED stopClicked
    ELSE UNCHANGED buttonVars

\* the state the button's onEnd callback sets
ButtonEnds(u) ==
    IF ttsCaller = "button"
    THEN /\ isPlaying' = FALSE
         /\ isPaused' = FALSE
         /\ pollIntervals' = pollIntervals \ {u}
         /\ UNCHANGED <<error, stopClicked>>
    ELSE UNCHANGED buttonVars

\* the handlers onend and onerror of utterance u: the interval the field
\* holds is cleared, the callback of the call is made, currentUtterance is
\* set to null
EndOrErrorHandler(u, type) ==
    /\ intervals' = intervals \ {keepAliveInterval}
    /\ keepAliveInterval' = 0
    /\ currentUtterance' = 0
    /\ IF type = "error"
       THEN /\ speakCalls' = [speakCalls EXCEPT ![u].onError = @ + 1]
            /\ ButtonFails("Speech synthesis error", u)
       ELSE /\ UNCHANGED speakCalls
            /\ ButtonEnds(u)

InitVoice ==
    /\ IdleOutsideVoice
    /\ ttsCaller \in Callers
    /\ voices \in SUBSET Languages
    /\ ttsCaller = "button" => language \in voices
    /\ currentUtterance = 0
    /\ keepAliveInterval = 0
    /\ intervals = {}
    /\ synthUtterance = 0
    /\ synthStarted = FALSE
    /\ lateEvents = {}
    /\ speakCalls = <<>>
    /\ isPlaying = FALSE
    /\ isPaused = FALSE
    /\ error = NoError
    /\ pollIntervals = {}
    /\ stopClicked = FALSE

\* a direct call of speak(text, lang, options): it waits for waitForVoices
speak(lang) ==
    /\ ttsCaller = "direct"
    /\ Len(speakCalls) < MaxSpeakCalls
    /\ speakCalls' = Append(speakCalls, NewCall(lang))
    /\ UNCHANGED <<ttsCaller, voices, currentUtterance, keepAliveInterval,
                   intervals, synthUtterance, synthStarted, lateEvents,
                   buttonVars, outsideVoice>>

\* a direct call of stop()
stop(outcome) ==
    /\ ttsCaller = "direct"
    /\ StopClears(outcome)
    /\ synthUtterance' = 0
    /\ synthStarted' = FALSE
    /\ currentUtterance' = 0
    /\ UNCHANGED <<ttsCaller, voices, speakCalls, buttonVars, outsideVoice>>

\* a click of the button: handleToggle.  The button is disabled while error
\* is set.
handleToggle(outcome) ==
    /\ ttsCaller = "button"
    /\ error = NoError
    /\ IF isPlaying
       THEN /\ StopClears(outcome)
            /\ synthUtterance' = 0
            /\ synthStarted' = FALSE
            /\ currentUtterance' = 0
            /\ isPlaying' = FALSE
            /\ isPaused' = FALSE
            /\ stopClicked' = TRUE
            /\ UNCHANGED <<speakCalls, error, pollIntervals>>
       ELSE IF isPaused
            THEN /\ isPaused' = FALSE
                 /\ isPlaying' = TRUE
                 /\ UNCHANGED <<currentUtterance, keepAliveInterval, intervals,
                                synthUtterance, synthStarted, lateEvents,
                                speakCalls, error, pollIntervals, stopClicked>>
            ELSE /\ Len(speakCalls) < MaxSpeakCalls
                 /\ speakCalls' = Append(speakCalls, NewCall(language))
                 /\ stopClicked' = FALSE
                 /\ UNCHANGED <<currentUtterance, keepAliveInterval, intervals,
                                synthUtterance, synthStarted, lateEvents,
                                isPlaying, isPaused, error, pollIntervals>>
    /\ UNCHANGED <<ttsCaller, voices, outsideVoice>>

\* waitForVoices resolves and speak goes on: stop(), then the voice for the
\* language is selected; without one, onError is called before the throw and
\* again in the catch, and the call rejects; with one, the utterance is
\* created and handed to synthesis.speak
speakContinues(c, outcome) ==
    /\ c \in WaitingCalls
    /\ \A w \in WaitingCalls : c <= w
    /\ voices # {}
    /\ StopClears(outcome)
    /\ synthStarted' = FALSE
    /\ IF speakCalls[c].language \in voices
       THEN /\ currentUtterance' = c
            /\ synthUtterance' = c
            /\ speakCalls' = [speakCalls EXCEPT ![c].state = "resolved",
                                                ![c].handed = TRUE]
            /\ UNCHANGED buttonVars
       ELSE /\ currentUtterance' = 0
            /\ synthUtterance' = 0
            /\ speakCalls' = [speakCalls EXCEPT ![c].state = "rejected",
                                                ![c].onError = @ + 2]
            /\ ButtonFails("No suitable voice found", 0)
    /\ UNCHANGED <<ttsCaller, voices, outsideVoice>>

\* waitForVoices rejects after its attempts: the catch calls onError and the
\* call rejects
speakFails(c) ==
    /\ c \in WaitingCalls
    /\ \A w \in WaitingCalls : c <= w
    /\ voices = {}
    /\ speakCalls' = [speakCalls EXCEPT ![c].state = "rejected",
                                        ![c].onError = @ + 1]
    /\ ButtonFails("Voices failed to load", 0)
    /\ UNCHANGED <<ttsCaller, voices, currentUtterance, keepAliveInterval,
                   intervals, synthUtterance, synthStarted, lateEvents,
                   outsideVoice>>

\* the start event of the utterance the synthesis holds: onstart sets the
\* keep-alive interval and calls onStart, which sets the poll interval
utteranceStart ==
    /\ synthUtterance # 0
    /\ ~synthStarted
    /\ synthStarted' = TRUE
    /\ keepAliveInterval' = synthUtterance
    /\ intervals' = intervals \cup {synthUtterance}
    /\ speakCalls' = [speakCalls EXCEPT ![synthUtterance].onStart = @ + 1]
    /\ IF ttsCaller = "button"
       THEN /\ isPlaying' = TRUE
            /\ isPaused' = FALSE
            /\ error' = NoError
            /\ pollIntervals' = pollIntervals \cup {synthUtterance}
            /\ UNCHANGED stopClicked
       ELSE UNCHANGED buttonVars
    /\ UNCHANGED <<ttsCaller, voices, currentUtterance, synthUtterance,
                   lateEvents, outsideVoice>>

\* the utterance that is spoken ends, or fails: its end or error event
utteranceEnds(type) ==
    /\ isSpeaking
    /\ synthUtterance' = 0
    /\ synthStarted' = FALSE
    /\ EndOrErrorHandler(synthUtterance, type)
    /\ UNCHANGED <<ttsCaller, voices, lateEvents, outsideVoice>>

\* an event owed to a cancelled utterance is dispatched
lateEvent(e) ==
    /\ e \in lateEvents
    /\ lateEvents' = lateEvents \ {e}
    /\ EndOrErrorHandler(e.utterance, e.type)
    /\ UNCHANGED <<ttsCaller, voices, synthUtterance, synthStarted, outsideVoice>>

\* the poll interval set by onStart ticks: when nothing is spoken or paused
\* it resets the button and clears itself
pollTick(p) ==
    /\ p \in pollIntervals
    /\ ~isSpeaking
    /\ isPlaying' = FALSE
    /\ isPaused' = FALSE
    /\ pollIntervals' = pollIntervals \ {p}
    /\ UNCHANGED <<ttsCaller, voices, currentUtterance, keepAliveInterval,
                   intervals, synthUtterance, synthStarted, lateEvents,
                   speakCalls, error, stopClicked, outsideVoice>>

NextVoice ==
    \/ \E lang \in Languages : speak(lang)
    \/ \E outcome \in CancelOutcomes : stop(outcome)
    \/ \E outcome \in CancelOutcomes : handleToggle(outcome)
    \/ \E c \in 1..MaxSpeakCalls, outcome \in CancelOutcomes : speakContinues(c, outcome)
    \/ \E c \in 1..MaxSpeakCalls : speakFails(c)
    \/ utteranceStart
    \/ \E type \in {"end", "error"} : utteranceEnds(type)
    \/ \E e \in lateEvents : lateEvent(e)
    \/ \E p \in pollIntervals : pollTick(p)

SpecVoice == InitVoice /\ [][NextVoice]_vars

\* C26, as stated: at most one keep-alive interval is scheduled, none is
\* scheduled while no utterance is current, and while an utterance is spoken
\* it is the current utterance and its keep-alive interval is scheduled,
\* whatever events of cancelled utterances arrive.
C26_KeepAlive ==
    /\ Cardinality(intervals) <= 1
    /\ currentUtterance = 0 => intervals = {}
    /\ isSpeaking => /\ currentUtterance = synthUtterance
                     /\ synthUtterance \in intervals

\* C27, as stated: a call of speak that rejects has called onError exactly
\* once and onStart never, and has handed no utterance to the synthesis.
C27_ErrorOnce ==
    \A c \in 1..Len(speakCalls) :
        speakCalls[c].state = "rejected" =>
            /\ speakCalls[c].onError = 1
            /\ speakCalls[c].onStart = 0
            /\ ~speakCalls[c].handed

\* nothing is left to happen by itself: no call waits, the synthesis holds no
\* utterance and owes no event, and no poll interval is scheduled
VoiceSettled ==
    /\ WaitingCalls = {}
    /\ synthUtterance = 0
    /\ lateEvents = {}
    /\ pollIntervals = {}

\* C28, as stated: once the user has stopped the narration with a click and
\* everything has settled, the button is idle and enabled.
C28_SettlesIdle ==
    (ttsCaller = "button" /\ stopClicked /\ VoiceSettled) =>
        /\ isPlaying = FALSE
        /\ isPaused = FALSE
        /\ error = NoError


(***************************************************************************)
(* The i18n manager (I18nManager) and a component that uses useI18n with   *)
(* one namespace.  The cache maps the key `${lang}-${namespace}`; with one *)
(* namespace, translations is the set of languages that have an entry.  A  *)
(* dynamic import in flight is kept with the language loadTranslations     *)
(* read when it was called; it completes as a step of its own, after which *)
(* the then-callback of the hook runs.                                     *)
(***************************************************************************)
\* largest number of dynamic imports started
MaxImports == 4

\* the hook is mounted: its effect has called loadTranslations(namespace) and
\* subscribed to language changes
InitI18n ==
    /\ IdleOutsideI18n
    /\ currentLanguage \in Languages
    /\ translations = {}
    /\ imports = {[id |-> 1, lang |-> currentLanguage]}
    /\ importsStarted = 1
    /\ hookIsLoaded = FALSE
    /\ hookCurrentLang = currentLanguage

\* an import started by loadTranslations completes: the entry is set under
\* the key of the language read at the call, the promise resolves and the
\* hook calls setIsLoaded(true)
importResolves(i) ==
    /\ i \in imports
    /\ imports' = imports \ {i}
    /\ translations' = translations \cup {i.lang}
    /\ hookIsLoaded' = TRUE
    /\ UNCHANGED <<currentLanguage, importsStarted, hookCurrentLang, outsideI18n>>

\* I18nManager.setLanguage(lang): the language is set, the listener of the
\* hook runs (setCurrentLang, loadTranslations: an import is started unless
\* the cache has the key, in which case the promise resolves at once and the
\* hook calls setIsLoaded(true)), and then the cache is cleared
i18nSetLanguage(lang) ==
    /\ lang # currentLanguage
    /\ currentLanguage' = lang
    /\ hookCurrentLang' = lang
    /\ IF lang \in translations
       THEN /\ hookIsLoaded' = TRUE
            /\ UNCHANGED <<imports, importsStarted>>
       ELSE /\ importsStarted < MaxImports
            /\ imports' = imports \cup {[id |-> importsStarted + 1, lang |-> lang]}
            /\ importsStarted' = importsStarted + 1
            /\ UNCHANGED hookIsLoaded
    /\ translations' = {}
    /\ UNCHANGED outsideI18n

NextI18n ==
    \/ \E i \in imports : importResolves(i)
    \/ \E lang \in Languages : i18nSetLanguage(lang)

SpecI18n == InitI18n /\ [][NextI18n]_vars

\* I18nManager.isLoaded(namespace)
isLoaded == currentLanguage \in translations

\* C29, as stated: whenever the hook reports isLoaded = true the cache holds
\* the namespace for the current language, and the cache never holds an
\* entry of another language than the current one.
C29_LoadedMeansCached ==
    /\ hookIsLoaded => isLoaded
    /\ \A lang \in translations : lang = currentLanguage


\* C30: at any instant canDoReading().allowed is true iff
\* getRemainingReadings() > 0; getRemainingReadings() is
\* max(0, READING_LIMIT - readings recorded in the last RESET_HOURS hours);
\* and when allowed is false, hoursLeft is an integer from 1 to RESET_HOURS.
C30_LimitFunctionsAgree ==
    /\ canDoReading.allowed = (getRemainingReadings > 0)
    /\ getRemainingReadings = Max(0, READING_LIMIT - RecordedInLastDay)
    /\ ~canDoReading.allowed =>
           /\ canDoReading.hoursLeft \in 1..RESET_HOURS
           /\ (canDoReading.hoursLeft - 1) * TicksPerHour
                  < MinOf(RecentReadings(ParsedLimitData.readings))
                      + RESET_HOURS * TicksPerHour - now
           /\ MinOf(RecentReadings(ParsedLimitData.readings))
                  + RESET_HOURS * TicksPerHour - now
                  <= canDoReading.hoursLeft * TicksPerHour

\* reading is refused with half an hour left of the oldest recent reading,
\* which rounds up to one hour, and more readings than the limit are recent
C30_Witness ==
    /\ ~canDoReading.allowed
    /\ canDoReading.hoursLeft = 1
    /\ MinOf(RecentReadings(ParsedLimitData.readings))
           + RESET_HOURS * TicksPerHour - now < TicksPerHour
    /\ RecordedInLastDay > READING_LIMIT
    /\ getRemainingReadings = 0

====
